---- MODULE Spec2Model ----
(***************************************************************************)
(* Model of the jax-js ESLint rules (eslint-plugin-jax-js).                *)
(*                                                                         *)
(* The rule no-use-after-consume walks, for one declared binding, the      *)
(* list of its references in source order and keeps one active consuming   *)
(* site plus three control-flow tags.  The rule's input is a syntax tree   *)
(* with parent links and source ranges; the model keeps that tree as a     *)
(* sequence of node records in source (pre-)order and translates every     *)
(* ancestor walk of the rule into a recursive operator over it.            *)
(***************************************************************************)
EXTENDS Integers, Sequences, FiniteSets, TLC

(***************************************************************************)
(* Name tables (src/src/shared.ts, api-surface.generated.ts).              *)
(***************************************************************************)
EXTRACTED_GETTERS ==
  {"aval", "device", "dtype", "ndim", "ref", "refCount", "shape", "size", "weakType"}

EXTRACTED_METHODS ==
  {"add", "all", "any", "argsort", "astype", "blockUntilReady", "data", "dataSync",
   "diagonal", "dispose", "div", "equal", "flatten", "greater", "greaterEqual",
   "item", "js", "jsAsync", "less", "lessEqual", "max", "mean", "min", "mod",
   "mul", "neg", "notEqual", "prod", "ravel", "reshape", "slice", "sort", "sub",
   "sum", "toString", "transpose"}

CONSUMING_TERMINAL_METHODS ==
  {"data", "dataSync", "js", "jsAsync", "item", "dispose", "tolist", "tobytes"}

NON_CONSUMING_METHODS == {"toString", "blockUntilReady"}

NON_CONSUMING_PROPS == EXTRACTED_GETTERS \cup NON_CONSUMING_METHODS

(* Variant of the derived table without its filter. *)
ARRAY_RETURNING_METHODS_UNFILTERED == EXTRACTED_METHODS

ARRAY_RETURNING_METHODS ==
  {m \in EXTRACTED_METHODS :
     m \notin CONSUMING_TERMINAL_METHODS /\ m \notin NON_CONSUMING_METHODS}

ARRAY_FACTORY_NAMES ==
  {"array", "zeros", "ones", "full", "eye", "identity", "arange", "linspace",
   "logspace", "zerosLike", "onesLike", "fullLike", "tri", "tril", "triu", "diag",
   "asarray", "concatenate", "stack", "vstack", "hstack", "dstack", "tile",
   "repeat", "meshgrid", "where", "empty", "emptyLike"}

UNAMBIGUOUS_ARRAY_METHODS ==
  {"neg", "astype", "transpose", "reshape", "ravel", "argsort", "diagonal",
   "greaterEqual", "lessEqual", "notEqual", "flatten", "squeeze", "expandDims",
   "swapaxes", "broadcastTo", "conj", "clip"}

SAFE_CALLEE_OBJECTS == {"console", "assert", "JSON", "Object", "Array", "Math"}

SAFE_CALLEE_NAMES ==
  {"expect", "assert", "String", "Number", "Boolean", "parseInt", "parseFloat",
   "isNaN", "isFinite", "describe", "it", "test"}

(***************************************************************************)
(* Syntax trees.                                                           *)
(*                                                                         *)
(* A tree is a sequence of node records in source order (a node comes      *)
(* before its children, children in the order of their text).  Fields:     *)
(*   type  the ESTree node type                                            *)
(*   name  Identifier: its name; MemberExpression: "computed" or "";       *)
(*         LogicalExpression / AssignmentExpression: the operator;         *)
(*         Literal: its text                                               *)
(*   rw    Identifier that the scope manager resolved as a reference:      *)
(*         "r" read, "w" write, "rw" both; "" for any other node           *)
(*   slot  the property of the parent node that holds this node            *)
(*   up    distance (in the sequence) to the parent node, 0 for the root   *)
(*   size  number of nodes of the subtree                                  *)
(*   line  source line on which the node starts                            *)
(* The source range of node n is [n, n + size): a node inside the subtree  *)
(* of m starts before m's end, a node after it starts at or after m's end. *)
(***************************************************************************)
N(type, name, rw) ==
  [type |-> type, name |-> name, rw |-> rw, slot |-> "", up |-> 0, size |-> 1,
   line |-> 0]

Kid(slot, frag) == <<slot, frag>>

RECURSIVE Attach(_, _)
Attach(kids, off) ==
  IF kids = <<>> THEN <<>>
  ELSE LET f  == Head(kids)[2]
           f1 == [f EXCEPT ![1].slot = Head(kids)[1], ![1].up = off]
       IN  f1 \o Attach(Tail(kids), off + Len(f))

Mk(type, name, kids) ==
  LET body == Attach(kids, 1)
  IN  <<[N(type, name, "") EXCEPT !.size = 1 + Len(body)]>> \o body

Kids(slot, frags) == [i \in 1..Len(frags) |-> Kid(slot, frags[i])]

Id(name, rw) == <<N("Identifier", name, rw)>>
Lit(text) == <<N("Literal", text, "")>>
Member(obj, prop) ==
  Mk("MemberExpression", "", <<Kid("object", obj), Kid("property", Id(prop, ""))>>)
MemberComputed(obj, key) ==
  Mk("MemberExpression", "computed", <<Kid("object", obj), Kid("property", key)>>)
Call(callee, args) ==
  Mk("CallExpression", "", <<Kid("callee", callee)>> \o Kids("arguments", args))
ArrayLit(elems) == Mk("ArrayExpression", "", Kids("elements", elems))
Spread(arg) == Mk("SpreadElement", "", <<Kid("argument", arg)>>)
Cond(test, cons, alt) ==
  Mk("ConditionalExpression", "",
     <<Kid("test", test), Kid("consequent", cons), Kid("alternate", alt)>>)
Logical(op, l, r) == Mk("LogicalExpression", op, <<Kid("left", l), Kid("right", r)>>)
Assign(op, l, r) == Mk("AssignmentExpression", op, <<Kid("left", l), Kid("right", r)>>)
Arrow(body) == Mk("ArrowFunctionExpression", "", <<Kid("body", body)>>)
FunctionExpr(body) == Mk("FunctionExpression", "", <<Kid("body", body)>>)
Await(arg) == Mk("AwaitExpression", "", <<Kid("argument", arg)>>)
Wrapper(type, expr) == Mk(type, "", <<Kid("expression", expr)>>)

ExprStmt(e) == Mk("ExpressionStatement", "", <<Kid("expression", e)>>)
Declarator(id, init) == Mk("VariableDeclarator", "", <<Kid("id", id), Kid("init", init)>>)
DeclaratorNoInit(id) == Mk("VariableDeclarator", "", <<Kid("id", id)>>)
VarDecl(kind, decl) == Mk("VariableDeclaration", kind, <<Kid("declarations", decl)>>)
Return(e) == Mk("ReturnStatement", "", <<Kid("argument", e)>>)
ReturnVoid == <<N("ReturnStatement", "", "")>>
Throw(e) == Mk("ThrowStatement", "", <<Kid("argument", e)>>)
Break == <<N("BreakStatement", "", "")>>
Continue == <<N("ContinueStatement", "", "")>>
Block(stmts) == Mk("BlockStatement", "", Kids("body", stmts))
If(test, cons) == Mk("IfStatement", "", <<Kid("test", test), Kid("consequent", cons)>>)
IfElse(test, cons, alt) ==
  Mk("IfStatement", "",
     <<Kid("test", test), Kid("consequent", cons), Kid("alternate", alt)>>)
While(test, body) == Mk("WhileStatement", "", <<Kid("test", test), Kid("body", body)>>)
DoWhile(body, test) == Mk("DoWhileStatement", "", <<Kid("body", body), Kid("test", test)>>)
For(test, body) == Mk("ForStatement", "", <<Kid("test", test), Kid("body", body)>>)
ForOf(left, right, body) ==
  Mk("ForOfStatement", "", <<Kid("left", left), Kid("right", right), Kid("body", body)>>)
ForIn(left, right, body) ==
  Mk("ForInStatement", "", <<Kid("left", left), Kid("right", right), Kid("body", body)>>)
FunctionDecl(body) == Mk("FunctionDeclaration", "", <<Kid("body", body)>>)
SwitchCase(test, stmts) ==
  Mk("SwitchCase", "", <<Kid("test", test)>> \o Kids("consequent", stmts))
Switch(disc, cases) ==
  Mk("SwitchStatement", "", <<Kid("discriminant", disc)>> \o Kids("cases", cases))
CatchClause(body) == Mk("CatchClause", "", <<Kid("body", body)>>)
Try(block, handler) ==
  Mk("TryStatement", "", <<Kid("block", block), Kid("handler", handler)>>)
TryFinally(block, finalizer) ==
  Mk("TryStatement", "", <<Kid("block", block), Kid("finalizer", finalizer)>>)

(* Tree accessors: parentOf, range[0], range[1], child properties. *)
parentOf(P, n) == IF n = 0 \/ P[n].up = 0 THEN 0 ELSE n - P[n].up
Start(P, n) == n
End(P, n) == n + P[n].size
TypeOf(P, n) == IF n = 0 THEN "" ELSE P[n].type
RECURSIVE SiblingsAt(_, _, _, _)
SiblingsAt(P, c, end, slot) ==
  IF c >= end THEN {}
  ELSE (IF P[c].slot = slot THEN {c} ELSE {}) \cup SiblingsAt(P, c + P[c].size, end, slot)
ChildrenAt(P, n, slot) == IF n = 0 THEN {} ELSE SiblingsAt(P, n + 1, n + P[n].size, slot)
RECURSIVE FirstAt(_, _, _, _)
FirstAt(P, c, end, slot) ==
  IF c >= end THEN 0
  ELSE IF P[c].slot = slot THEN c
  ELSE FirstAt(P, c + P[c].size, end, slot)
ChildAt(P, n, slot) == IF n = 0 THEN 0 ELSE FirstAt(P, n + 1, n + P[n].size, slot)
HasChild(P, n, slot) == ChildAt(P, n, slot) # 0
IsChildAt(P, n, parent, slot) ==
  n # 0 /\ parent # 0 /\ parentOf(P, n) = parent /\ P[n].slot = slot

FunctionTypes == {"ArrowFunctionExpression", "FunctionExpression", "FunctionDeclaration"}

(***************************************************************************)
(* no-use-after-consume.ts: safe callees and consuming-site detection.     *)
(***************************************************************************)
(* Variant with an empty allow list. *)
isSafeCalleeNone(P, callee) == FALSE

(* Variant of the allow-list test that knows bare names only. *)
isSafeCalleeNamesOnly(P, callee) ==
  TypeOf(P, callee) = "Identifier" /\ P[callee].name \in SAFE_CALLEE_NAMES

isSafeCallee(P, callee) ==
  IF TypeOf(P, callee) = "Identifier" THEN P[callee].name \in SAFE_CALLEE_NAMES
  ELSE IF TypeOf(P, callee) = "MemberExpression"
          /\ TypeOf(P, ChildAt(P, callee, "object")) = "Identifier"
       THEN P[ChildAt(P, callee, "object")].name \in SAFE_CALLEE_OBJECTS
       ELSE FALSE

describeCallee(P, callee) ==
  LET obj  == ChildAt(P, callee, "object")
      prop == ChildAt(P, callee, "property")
  IN
  IF TypeOf(P, callee) = "Identifier" THEN P[callee].name \o "()"
  ELSE IF TypeOf(P, callee) = "MemberExpression" /\ P[callee].name # "computed"
          /\ TypeOf(P, prop) = "Identifier"
       THEN IF TypeOf(P, obj) = "Identifier"
            THEN P[obj].name \o "." \o P[prop].name \o "()"
            ELSE IF TypeOf(P, obj) = "MemberExpression" /\ P[obj].name # "computed"
                    /\ TypeOf(P, ChildAt(P, obj, "property")) = "Identifier"
                    /\ TypeOf(P, ChildAt(P, obj, "object")) = "Identifier"
                 THEN P[ChildAt(P, obj, "object")].name \o "."
                        \o P[ChildAt(P, obj, "property")].name \o "."
                        \o P[prop].name \o "()"
                 ELSE "a function call"
       ELSE "a function call"

(* ConsumingSite; NoSite stands for null. *)
NoSite == [identifier |-> 0, kind |-> "", description |-> ""]
Site(identifier, kind, description) ==
  [identifier |-> identifier, kind |-> kind, description |-> description]

(* Variant of pattern 1 that does not look for the invocation. *)
MethodCallSiteUninvoked(P, identifier, parent) ==
  LET prop == P[ChildAt(P, parent, "property")].name
  IN  IF prop \notin ARRAY_RETURNING_METHODS /\ prop \notin CONSUMING_TERMINAL_METHODS
      THEN NoSite
      ELSE Site(identifier, "method", "." \o prop \o "()")

(* Pattern 1: x.method(...), for a member expression `parent` whose object is
   the identifier. *)
MethodCallSite(P, identifier, parent) ==
  LET prop == P[ChildAt(P, parent, "property")].name
      gp   == parentOf(P, parent)
  IN  IF prop \notin ARRAY_RETURNING_METHODS /\ prop \notin CONSUMING_TERMINAL_METHODS
      THEN NoSite
      ELSE IF TypeOf(P, gp) = "CallExpression" /\ IsChildAt(P, parent, gp, "callee")
           THEN Site(identifier, "method", "." \o prop \o "()")
           ELSE NoSite

(* Variant of pattern 2 that takes only calls through a member expression
   (np.multiply(x), obj.method(x)) as consuming. *)
ArgumentSiteMemberCalleeOnly(P, identifier, parent) ==
  LET callee == ChildAt(P, parent, "callee")
  IN  IF TypeOf(P, callee) # "MemberExpression" THEN NoSite
      ELSE IF isSafeCallee(P, callee) THEN NoSite
      ELSE Site(identifier, "argument", describeCallee(P, callee))

(* Pattern 2: x passed as an argument of the call `parent`. *)
ArgumentSite(P, identifier, parent) ==
  LET callee == ChildAt(P, parent, "callee")
  IN  IF TypeOf(P, callee) = "Super" THEN NoSite
      ELSE IF isSafeCallee(P, callee) THEN NoSite
      ELSE Site(identifier, "argument", describeCallee(P, callee))

getConsumingSite(P, identifier) ==
  LET parent == parentOf(P, identifier)
  IN
  IF parent = 0 THEN NoSite
  ELSE IF TypeOf(P, parent) = "MemberExpression"
          /\ IsChildAt(P, identifier, parent, "object")
          /\ P[parent].name # "computed"
          /\ TypeOf(P, ChildAt(P, parent, "property")) = "Identifier"
       THEN MethodCallSite(P, identifier, parent)
  ELSE IF TypeOf(P, parent) = "CallExpression"
          /\ IsChildAt(P, identifier, parent, "arguments")
       THEN ArgumentSite(P, identifier, parent)
  ELSE NoSite

(***************************************************************************)
(* Mutually exclusive branches.                                            *)
(***************************************************************************)
RECURSIVE getIfAncestors(_, _)
getIfAncestors(P, node) ==
  LET parent == parentOf(P, node)
  IN  IF parent = 0 THEN {}
      ELSE (IF TypeOf(P, parent) = "IfStatement" THEN {parent} ELSE {})
             \cup getIfAncestors(P, parent)

RECURSIVE getIfBranchSide(_, _, _)
getIfBranchSide(P, node, ifStmt) ==
  LET parent == parentOf(P, node)
  IN  IF parent = 0 THEN "null"
      ELSE IF parent = ifStmt
           THEN IF IsChildAt(P, node, ifStmt, "consequent") THEN "consequent"
                ELSE IF IsChildAt(P, node, ifStmt, "alternate") THEN "alternate"
                ELSE "null"
           ELSE getIfBranchSide(P, parent, ifStmt)

RECURSIVE isDescendantOf(_, _, _)
isDescendantOf(P, node, ancestor) ==
  IF node = 0 THEN FALSE
  ELSE IF node = ancestor THEN TRUE
  ELSE isDescendantOf(P, parentOf(P, node), ancestor)

StatementBoundaryTypes ==
  {"ExpressionStatement", "VariableDeclaration", "ReturnStatement",
   "ArrowFunctionExpression", "FunctionExpression", "FunctionDeclaration"}

(* Variant of the ancestor search that accepts any operand of a ternary or
   logical expression, the test and the left operand included. *)
RECURSIVE getConditionalAncestorAnyOperand(_, _)
getConditionalAncestorAnyOperand(P, node) ==
  LET parent == parentOf(P, node)
  IN  IF parent = 0 THEN 0
      ELSE IF TypeOf(P, parent) \in {"ConditionalExpression", "LogicalExpression"}
           THEN parent
      ELSE IF TypeOf(P, parent) \in StatementBoundaryTypes THEN 0
      ELSE getConditionalAncestorAnyOperand(P, parent)

RECURSIVE getConditionalAncestor(_, _)
getConditionalAncestor(P, node) ==
  LET parent == parentOf(P, node)
  IN  IF parent = 0 THEN 0
      ELSE IF TypeOf(P, parent) = "ConditionalExpression"
              /\ (IsChildAt(P, node, parent, "consequent")
                  \/ IsChildAt(P, node, parent, "alternate"))
           THEN parent
      ELSE IF TypeOf(P, parent) = "LogicalExpression"
              /\ IsChildAt(P, node, parent, "right")
           THEN parent
      ELSE IF TypeOf(P, parent) \in StatementBoundaryTypes THEN 0
      ELSE getConditionalAncestor(P, parent)

areInMutuallyExclusiveBranchesTernaryOnly(P, node1, node2) ==
  LET cond1 == getConditionalAncestor(P, node1)
      cond2 == getConditionalAncestor(P, node2)
  IN
  IF cond1 = 0 \/ cond2 = 0 \/ cond1 # cond2 THEN FALSE
  ELSE IF TypeOf(P, cond1) = "ConditionalExpression"
       THEN LET inConsequent1 == isDescendantOf(P, node1, ChildAt(P, cond1, "consequent"))
                inAlternate1  == isDescendantOf(P, node1, ChildAt(P, cond1, "alternate"))
                inConsequent2 == isDescendantOf(P, node2, ChildAt(P, cond1, "consequent"))
                inAlternate2  == isDescendantOf(P, node2, ChildAt(P, cond1, "alternate"))
            IN  (inConsequent1 /\ inAlternate2) \/ (inAlternate1 /\ inConsequent2)
       ELSE FALSE

areInMutuallyExclusiveBranches(P, node1, node2) ==
  LET cond1 == getConditionalAncestor(P, node1)
      cond2 == getConditionalAncestor(P, node2)
  IN
  IF \E ifStmt \in getIfAncestors(P, node1) :
       LET side1 == getIfBranchSide(P, node1, ifStmt)
           side2 == getIfBranchSide(P, node2, ifStmt)
       IN  side1 # "null" /\ side2 # "null" /\ side1 # side2
  THEN TRUE
  ELSE IF cond1 = 0 \/ cond2 = 0 \/ cond1 # cond2 THEN FALSE
  ELSE IF TypeOf(P, cond1) = "ConditionalExpression"
       THEN LET inConsequent1 == isDescendantOf(P, node1, ChildAt(P, cond1, "consequent"))
                inAlternate1  == isDescendantOf(P, node1, ChildAt(P, cond1, "alternate"))
                inConsequent2 == isDescendantOf(P, node2, ChildAt(P, cond1, "consequent"))
                inAlternate2  == isDescendantOf(P, node2, ChildAt(P, cond1, "alternate"))
            IN  (inConsequent1 /\ inAlternate2) \/ (inAlternate1 /\ inConsequent2)
       ELSE FALSE

(***************************************************************************)
(* Expression evaluation order.                                            *)
(***************************************************************************)
isDescendantOfArgumentsDirectOnly(P, node, call) ==
  node # 0 /\ IsChildAt(P, node, call, "arguments")

RECURSIVE isDescendantOfArguments(_, _, _)
isDescendantOfArguments(P, node, call) ==
  IF node = 0 THEN FALSE
  ELSE IF IsChildAt(P, node, call, "arguments") THEN TRUE
  ELSE IF parentOf(P, node) = call THEN FALSE
  ELSE isDescendantOfArguments(P, parentOf(P, node), call)

isInArgumentsOfSameConsumingCall(P, refNode, consumingSite) ==
  LET consumingIdent == consumingSite.identifier
      memberExpr     == parentOf(P, consumingIdent)
      callExpr       == IF consumingSite.kind = "method" THEN parentOf(P, memberExpr)
                        ELSE parentOf(P, consumingIdent)
  IN
  IF consumingSite.kind = "method"
       /\ (memberExpr = 0 \/ TypeOf(P, memberExpr) # "MemberExpression")
  THEN FALSE
  ELSE IF consumingSite.kind \notin {"method", "argument"} THEN FALSE
  ELSE IF callExpr = 0 \/ TypeOf(P, callExpr) # "CallExpression" THEN FALSE
  ELSE isDescendantOfArguments(P, refNode, callExpr)

(***************************************************************************)
(* Loops, terminating if-branches, consume-and-reassign.                   *)
(***************************************************************************)
LoopTypes ==
  {"ForStatement", "WhileStatement", "DoWhileStatement", "ForOfStatement",
   "ForInStatement"}

RECURSIVE getEnclosingLoop(_, _)
getEnclosingLoop(P, node) ==
  LET parent == parentOf(P, node)
      gp     == parentOf(P, parent)
  IN  IF parent = 0 THEN 0
      ELSE IF TypeOf(P, parent) \in LoopTypes /\ IsChildAt(P, node, parent, "body")
           THEN parent
      ELSE IF TypeOf(P, parent) = "BlockStatement" /\ gp # 0
              /\ TypeOf(P, gp) \in LoopTypes /\ IsChildAt(P, parent, gp, "body")
           THEN gp
      ELSE IF TypeOf(P, parent) \in FunctionTypes THEN 0
      ELSE getEnclosingLoop(P, parent)

LastOf(S) == CHOOSE j \in S : \A k \in S : k <= j

(* Variant of the termination test in which an if statement terminates as
   soon as its consequent does. *)
RECURSIVE blockTerminatesConsequentOnly(_, _)
blockTerminatesConsequentOnly(P, node) ==
  IF TypeOf(P, node) \in
       {"ReturnStatement", "ThrowStatement", "BreakStatement", "ContinueStatement"}
  THEN TRUE
  ELSE IF TypeOf(P, node) = "BlockStatement"
       THEN LET body == ChildrenAt(P, node, "body")
            IN  body # {} /\ blockTerminatesConsequentOnly(P, LastOf(body))
  ELSE IF TypeOf(P, node) = "IfStatement"
       THEN blockTerminatesConsequentOnly(P, ChildAt(P, node, "consequent"))
  ELSE FALSE

RECURSIVE blockTerminates(_, _)
blockTerminates(P, node) ==
  IF TypeOf(P, node) \in
       {"ReturnStatement", "ThrowStatement", "BreakStatement", "ContinueStatement"}
  THEN TRUE
  ELSE IF TypeOf(P, node) = "BlockStatement"
       THEN LET body == ChildrenAt(P, node, "body")
            IN  body # {} /\ blockTerminates(P, LastOf(body))
  ELSE IF TypeOf(P, node) = "IfStatement"
       THEN blockTerminates(P, ChildAt(P, node, "consequent"))
            /\ HasChild(P, node, "alternate")
            /\ blockTerminates(P, ChildAt(P, node, "alternate"))
  ELSE FALSE

RECURSIVE getTerminatingIfAncestor(_, _)
getTerminatingIfAncestor(P, node) ==
  LET parent == parentOf(P, node)
      gp     == parentOf(P, parent)
  IN  IF parent = 0 THEN 0
      ELSE IF TypeOf(P, parent) = "IfStatement"
              /\ (IsChildAt(P, node, parent, "consequent")
                  \/ IsChildAt(P, node, parent, "alternate"))
              /\ blockTerminates(P, node)
           THEN parent
      ELSE IF TypeOf(P, parent) = "BlockStatement" /\ TypeOf(P, gp) = "IfStatement"
              /\ (IsChildAt(P, parent, gp, "consequent")
                  \/ IsChildAt(P, parent, gp, "alternate"))
              /\ blockTerminates(P, parent)
           THEN gp
      ELSE IF TypeOf(P, parent) \in FunctionTypes THEN 0
      ELSE getTerminatingIfAncestor(P, parent)

(* Variant of the reassignment test that looks at the direct parent only. *)
isConsumeAndReassignDirectOnly(P, node, varName) ==
  LET parent == parentOf(P, node)
      left   == ChildAt(P, parent, "left")
  IN  /\ parent # 0
      /\ TypeOf(P, parent) = "AssignmentExpression"
      /\ IsChildAt(P, node, parent, "right")
      /\ TypeOf(P, left) = "Identifier"
      /\ P[left].name = varName

RECURSIVE isConsumeAndReassign(_, _, _)
isConsumeAndReassign(P, node, varName) ==
  LET parent == parentOf(P, node)
      left   == ChildAt(P, parent, "left")
  IN  IF parent = 0 THEN FALSE
      ELSE IF TypeOf(P, parent) = "AssignmentExpression"
              /\ IsChildAt(P, node, parent, "right")
              /\ TypeOf(P, left) = "Identifier"
              /\ P[left].name = varName
           THEN TRUE
      ELSE IF TypeOf(P, parent) \in StatementBoundaryTypes THEN FALSE
      ELSE isConsumeAndReassign(P, parent, varName)

(***************************************************************************)
(* Scopes (the scope manager's view of the tree) and isInNestedFunction.   *)
(***************************************************************************)
ScopeType(P, n) ==
  IF TypeOf(P, n) \in FunctionTypes THEN "function"
  ELSE IF TypeOf(P, n) = "BlockStatement" /\ TypeOf(P, parentOf(P, n)) \notin FunctionTypes
       THEN "block"
  ELSE IF TypeOf(P, n) \in {"ForStatement", "ForOfStatement", "ForInStatement"} THEN "for"
  ELSE IF TypeOf(P, n) = "SwitchStatement" THEN "switch"
  ELSE IF TypeOf(P, n) = "CatchClause" THEN "catch"
  ELSE IF TypeOf(P, n) = "Program" THEN "module"
  ELSE ""

(* The innermost scope that contains node n (ref.from, scope.upper). *)
RECURSIVE ScopeOf(_, _)
ScopeOf(P, n) ==
  LET parent == parentOf(P, n)
  IN  IF parent = 0 THEN 0
      ELSE IF ScopeType(P, parent) # "" THEN parent
      ELSE ScopeOf(P, parent)

(* The variable found for a let/const declarator: its declaring scope. *)
findVariable(P, declarator) == ScopeOf(P, declarator)

RECURSIVE ScopeChainHasFunction(_, _, _)
ScopeChainHasFunction(P, scope, variableScope) ==
  IF scope = 0 \/ scope = variableScope THEN FALSE
  ELSE IF ScopeType(P, scope) = "function" THEN TRUE
  ELSE ScopeChainHasFunction(P, ScopeOf(P, scope), variableScope)

isInNestedFunction(P, ref, variableScope) ==
  ScopeChainHasFunction(P, ScopeOf(P, ref), variableScope)

(***************************************************************************)
(* The @jax-borrow directive.  A source line is a sequence of tokens; the  *)
(* rule tests it against a regular expression: a comment opener (two      *)
(* slashes, or slash star) followed, anywhere later on the line, by the    *)
(* marker.                                                                 *)
(***************************************************************************)
LineMatchesJaxBorrow(lineText) ==
  \E i \in 1..Len(lineText) : \E j \in 1..Len(lineText) :
     i < j /\ lineText[i] \in {"//", "/*"} /\ lineText[j] = "@jax-borrow"

(* Variant of the directive test that also looks at the line below the call. *)
lineHasJaxBorrowAround(P, sourceLines, identifier) ==
  LET call == parentOf(P, identifier)
      line == IF call # 0 THEN P[call].line ELSE P[identifier].line
  IN  IF line = 0 THEN FALSE
      ELSE \E ln \in {line - 1, line, line + 1} :
             /\ ln >= 1
             /\ ln <= Len(sourceLines)
             /\ LineMatchesJaxBorrow(sourceLines[ln])

lineHasJaxBorrow(P, sourceLines, identifier) ==
  LET call == parentOf(P, identifier)
      line == IF call # 0 THEN P[call].line ELSE P[identifier].line
  IN  IF line = 0 THEN FALSE
      ELSE \E ln \in {line - 1, line} :
             /\ ln >= 1
             /\ ln <= Len(sourceLines)
             /\ LineMatchesJaxBorrow(sourceLines[ln])

(***************************************************************************)
(* shared.ts: array-init heuristics.                                       *)
(***************************************************************************)
TransparentTypes ==
  {"ParenthesizedExpression", "TSAsExpression", "TSNonNullExpression",
   "TSSatisfiesExpression", "TSTypeAssertion"}

RECURSIVE unwrapTransparentExpression(_, _)
unwrapTransparentExpression(P, node) ==
  IF node = 0 THEN 0
  ELSE IF TypeOf(P, node) \in TransparentTypes
       THEN unwrapTransparentExpression(P, ChildAt(P, node, "expression"))
  ELSE node

(* Variant of the factory test that accepts every plain function call. *)
isArrayFactoryAnyName(P, node) ==
  LET c == ChildAt(P, node, "callee")
  IN  IF TypeOf(P, c) = "Identifier" THEN TRUE
      ELSE /\ TypeOf(P, c) = "MemberExpression"
           /\ P[c].name # "computed"
           /\ TypeOf(P, ChildAt(P, c, "property")) = "Identifier"
           /\ P[ChildAt(P, c, "property")].name \in ARRAY_FACTORY_NAMES

isArrayFactory(P, node) ==
  LET c == ChildAt(P, node, "callee")
  IN  IF TypeOf(P, c) = "Identifier" THEN P[c].name \in ARRAY_FACTORY_NAMES
      ELSE /\ TypeOf(P, c) = "MemberExpression"
           /\ P[c].name # "computed"
           /\ TypeOf(P, ChildAt(P, c, "property")) = "Identifier"
           /\ P[ChildAt(P, c, "property")].name \in ARRAY_FACTORY_NAMES

RECURSIVE isArrayInit(_, _)
isArrayInit(P, init) ==
  LET unwrapped == unwrapTransparentExpression(P, init)
      callee    == ChildAt(P, unwrapped, "callee")
  IN
  IF init = 0 THEN FALSE
  ELSE IF TypeOf(P, unwrapped) = "CallExpression" /\ isArrayFactory(P, unwrapped) THEN TRUE
  ELSE IF /\ TypeOf(P, unwrapped) = "CallExpression"
          /\ TypeOf(P, callee) = "MemberExpression"
          /\ P[callee].name # "computed"
          /\ TypeOf(P, ChildAt(P, callee, "property")) = "Identifier"
          /\ P[ChildAt(P, callee, "property")].name \in UNAMBIGUOUS_ARRAY_METHODS
       THEN TRUE
  ELSE IF /\ TypeOf(P, unwrapped) = "MemberExpression"
          /\ P[unwrapped].name # "computed"
          /\ TypeOf(P, ChildAt(P, unwrapped, "property")) = "Identifier"
          /\ P[ChildAt(P, unwrapped, "property")].name = "ref"
       THEN TRUE
  ELSE IF TypeOf(P, unwrapped) = "AwaitExpression"
       THEN isArrayInit(P, ChildAt(P, unwrapped, "argument"))
  ELSE FALSE

(***************************************************************************)
(* The references of the declared variable, in source order, without the   *)
(* declaration's own identifier.                                           *)
(***************************************************************************)
RECURSIVE SeqOfSet(_)
SeqOfSet(S) ==
  IF S = {} THEN <<>>
  ELSE LET m == CHOOSE j \in S : \A k \in S : j <= k
       IN  <<m>> \o SeqOfSet(S \ {m})

References(P, declarator) ==
  LET id == ChildAt(P, declarator, "id")
  IN  SeqOfSet({n \in 1..Len(P) :
                  /\ P[n].type = "Identifier"
                  /\ P[n].rw # ""
                  /\ P[n].name = P[id].name
                  /\ n # id})

isWrite(P, ref) == P[ref].rw \in {"w", "rw"}
isRead(P, ref) == P[ref].rw \in {"r", "rw"}

(***************************************************************************)
(* no-unnecessary-ref: the second rule of the plugin.  Its handler runs    *)
(* once on every non-computed member expression whose property is `ref`.   *)
(***************************************************************************)
(* Functions with parameters.  A parameter is a declaration, not a
   reference: the scope manager gives it no read/write tag. *)
Param(name) == Id(name, "")
ArrowP(params, body) ==
  Mk("ArrowFunctionExpression", "", Kids("params", params) \o <<Kid("body", body)>>)
FunctionExprP(params, body) ==
  Mk("FunctionExpression", "", Kids("params", params) \o <<Kid("body", body)>>)
FunctionDeclP(params, body) ==
  Mk("FunctionDeclaration", "", Kids("params", params) \o <<Kid("body", body)>>)

(* scope.variables of a scope: the definitions (parameter identifiers and
   let/const declarator ids) that declare `name` in it. *)
DefinitionsIn(P, scope, name) ==
  {n \in 1..Len(P) :
     /\ P[n].type = "Identifier"
     /\ P[n].name = name
     /\ \/ P[n].slot = "params" /\ parentOf(P, n) = scope
        \/ /\ P[n].slot = "id"
           /\ TypeOf(P, parentOf(P, n)) = "VariableDeclarator"
           /\ ScopeOf(P, parentOf(P, n)) = scope}

NoVariable == [scope |-> 0, name |-> "", defs |-> {}]

(* findVariable(scope, name): the first scope of the chain that declares
   the name. *)
RECURSIVE findVariableByName(_, _, _)
findVariableByName(P, scope, name) ==
  IF scope = 0 THEN NoVariable
  ELSE IF DefinitionsIn(P, scope, name) # {}
       THEN [scope |-> scope, name |-> name, defs |-> DefinitionsIn(P, scope, name)]
  ELSE findVariableByName(P, ScopeOf(P, scope), name)

(* variable.references: every tagged identifier that resolves to the
   variable, the written declaration id included, in source order. *)
VariableReferences(P, v) ==
  SeqOfSet({n \in 1..Len(P) :
              /\ P[n].type = "Identifier"
              /\ P[n].rw # ""
              /\ P[n].name = v.name
              /\ findVariableByName(P, ScopeOf(P, n), v.name) = v})

(* Variant that exempts the parameters of every function. *)
isBorrowedBindingAnyFunction(P, v) ==
  \E def \in v.defs :
    \/ P[def].slot = "params"
    \/ /\ P[def].slot = "id"
       /\ TypeOf(P, parentOf(P, parentOf(P, parentOf(P, def)))) \in
            {"ForOfStatement", "ForInStatement"}

isBorrowedBinding(P, v) ==
  \E def \in v.defs :
    \/ /\ P[def].slot = "params"
       /\ LET funcNode == parentOf(P, def)
          IN  /\ TypeOf(P, funcNode) \in {"ArrowFunctionExpression", "FunctionExpression"}
              /\ TypeOf(P, parentOf(P, funcNode)) = "CallExpression"
              /\ funcNode \in ChildrenAt(P, parentOf(P, funcNode), "arguments")
    \/ /\ P[def].slot = "id"
       /\ TypeOf(P, parentOf(P, parentOf(P, parentOf(P, def)))) \in
            {"ForOfStatement", "ForInStatement"}

(* Variant of the rule without the closure test. *)
isClosureCaptureNone(P, variableScope, refScope) == FALSE

isClosureCapture(P, variableScope, refScope) ==
  ScopeChainHasFunction(P, refScope, variableScope)

(* A path `a.b.c` is the sequence of its names. *)
IsPrefix(s, t) == Len(s) <= Len(t) /\ SubSeq(t, 1, Len(s)) = s

RECURSIVE PathAbove(_, _)
PathAbove(P, current) ==
  LET parent == parentOf(P, current)
  IN  IF /\ TypeOf(P, parent) = "MemberExpression"
         /\ IsChildAt(P, current, parent, "object")
         /\ P[parent].name # "computed"
         /\ TypeOf(P, ChildAt(P, parent, "property")) = "Identifier"
      THEN <<P[ChildAt(P, parent, "property")].name>> \o PathAbove(P, parent)
      ELSE <<>>

getReferencePath(P, identifier) == <<P[identifier].name>> \o PathAbove(P, identifier)

NoTarget == [rootName |-> "", rootIdentifier |-> 0, targetPath |-> <<>>]

(* The identifier at the bottom of a chain of non-computed member
   expressions, 0 when the chain is broken. *)
RECURSIVE ChainRoot(_, _)
ChainRoot(P, current) ==
  IF TypeOf(P, current) = "MemberExpression"
  THEN IF \/ P[current].name = "computed"
          \/ TypeOf(P, ChildAt(P, current, "property")) # "Identifier"
       THEN 0
       ELSE ChainRoot(P, ChildAt(P, current, "object"))
  ELSE IF TypeOf(P, current) = "Identifier" THEN current
  ELSE 0

(* parts.unshift(current.property.name) down the chain. *)
RECURSIVE ChainParts(_, _)
ChainParts(P, current) ==
  IF TypeOf(P, current) = "MemberExpression"
  THEN ChainParts(P, ChildAt(P, current, "object")) \o
         <<P[ChildAt(P, current, "property")].name>>
  ELSE <<>>

getTrackedTarget(P, n) ==
  IF TypeOf(P, n) = "Identifier"
  THEN [rootName |-> P[n].name, rootIdentifier |-> n, targetPath |-> <<P[n].name>>]
  ELSE IF TypeOf(P, n) # "MemberExpression" THEN NoTarget
  ELSE IF ChainRoot(P, n) = 0 THEN NoTarget
  ELSE [rootName |-> P[ChainRoot(P, n)].name, rootIdentifier |-> ChainRoot(P, n),
        targetPath |-> <<P[ChainRoot(P, n)].name>> \o ChainParts(P, n)]

(* "" stands for null. *)
getFirstPropertyAfterTarget(P, ref, targetPath) ==
  LET refPath == getReferencePath(P, ref)
  IN  IF ~(IsPrefix(targetPath, refPath) /\ Len(refPath) > Len(targetPath)) THEN ""
      ELSE refPath[Len(targetPath) + 1]

isNonConsumingForTarget(P, ref, targetPath) ==
  LET firstProp == getFirstPropertyAfterTarget(P, ref, targetPath)
  IN  IF firstProp # "" THEN firstProp \in NON_CONSUMING_PROPS ELSE FALSE

isRefAccessForTarget(P, ref, targetPath) ==
  getFirstPropertyAfterTarget(P, ref, targetPath) = "ref"

(* The reports of the rule.  fix and suggest hold the edits as the fixer
   calls that produce them. *)
NoFix == [op |-> "", from |-> 0, to |-> 0]
NoRefReport ==
  [node |-> 0, messageId |-> "", name |-> <<>>, props |-> <<>>, fix |-> NoFix,
   suggest |-> <<>>]

(* Variant that removes through the end of the chain the marker sits in. *)
removeRefToChainEnd(P, m) ==
  [op |-> "removeRange", from |-> m,
   to |-> IF TypeOf(P, parentOf(P, m)) = "MemberExpression"
          THEN ChildAt(P, parentOf(P, m), "property")
          ELSE ChildAt(P, m, "property")]

(* removeRef: from the `.` token after node.object through the token after
   it, the `ref` property. *)
removeRef(P, m) ==
  [op |-> "removeRange", from |-> m, to |-> ChildAt(P, m, "property")]

(* Variant that takes the statement of the last use without climbing. *)
StatementOfParentOnly(P, lastId) == parentOf(P, lastId)

(* The node the addDispose edit is placed after: from the parent of the last
   use upward until the parent is a block. *)
RECURSIVE ClimbToStatement(_, _)
ClimbToStatement(P, stmtNode) ==
  IF /\ parentOf(P, stmtNode) # 0
     /\ TypeOf(P, parentOf(P, stmtNode)) \notin {"Program", "BlockStatement"}
  THEN ClimbToStatement(P, parentOf(P, stmtNode))
  ELSE stmtNode

StatementOf(P, lastId) ==
  ClimbToStatement(P, IF parentOf(P, lastId) # 0 THEN parentOf(P, lastId) ELSE lastId)

addDispose(P, varName, lastId) ==
  [messageId |-> "addDispose", name |-> varName, op |-> "insertTextAfterRange",
   after |-> StatementOf(P, lastId), text |-> <<"\n">> \o varName \o <<"dispose", "()", ";">>]

(* The distinct first properties of the later reads, in order. *)
RECURSIVE CollectProps(_, _, _, _)
CollectProps(P, after, targetPath, props) ==
  IF after = <<>> THEN props
  ELSE LET ref == Head(after)
           p   == getFirstPropertyAfterTarget(P, ref, targetPath)
       IN  IF ~isRead(P, ref) THEN CollectProps(P, Tail(after), targetPath, props)
           ELSE IF p = "" \/ p \notin NON_CONSUMING_PROPS THEN props
           ELSE CollectProps(P, Tail(after), targetPath,
                             IF \E i \in 1..Len(props) : props[i] = p THEN props
                             ELSE Append(props, p))

(* Variant that counts only earlier reads followed by a property. *)
ConsumedBeforeMemberOnly(P, before, targetPath) ==
  \E i \in 1..Len(before) :
    /\ isRead(P, before[i])
    /\ getFirstPropertyAfterTarget(P, before[i], targetPath) \notin NON_CONSUMING_PROPS \cup {""}

(* Lines 92-96: a read before the marker that is not a non-consuming
   property access. *)
ConsumedBefore(P, before, targetPath) ==
  \E i \in 1..Len(before) :
    isRead(P, before[i]) /\ ~isNonConsumingForTarget(P, before[i], targetPath)

(* Variant that misses later markers. *)
LaterRefAccessNone(P, after, targetPath) == FALSE

(* Lines 113-118: a later read that is itself a `.ref` access. *)
LaterRefAccess(P, after, targetPath) ==
  \E i \in 1..Len(after) :
    isRead(P, after[i]) /\ isRefAccessForTarget(P, after[i], targetPath)

(* Lines 122-128: every later read is a non-consuming property access. *)
AllNonConsuming(P, after, targetPath) ==
  \A i \in 1..Len(after) :
    ~isRead(P, after[i]) \/
      getFirstPropertyAfterTarget(P, after[i], targetPath) \in NON_CONSUMING_PROPS

RefOutcome(report, outcome) == [report |-> report, outcome |-> outcome]

(* The handler, after the tracked variable is found. *)
CheckTracked(P, m, target, trackedVariable) ==
  LET allRefs == SelectSeq(VariableReferences(P, trackedVariable),
                           LAMBDA r : IsPrefix(target.targetPath, getReferencePath(P, r)))
      hits    == {i \in 1..Len(allRefs) :
                    /\ isRefAccessForTarget(P, allRefs[i], target.targetPath)
                    /\ Start(P, allRefs[i]) = Start(P, target.rootIdentifier)}
      idx0    == IF hits = {} THEN 0 ELSE CHOOSE i \in hits : \A j \in hits : i <= j
      after   == SubSeq(allRefs, idx0 + 1, Len(allRefs))
      props   == CollectProps(P, after, target.targetPath, <<>>)
      reads   == {i \in 1..Len(after) : isRead(P, after[i])}
      lastRead == IF reads = {} THEN 0
                  ELSE after[CHOOSE i \in reads : \A j \in reads : j <= i]
  IN  IF isBorrowedBinding(P, trackedVariable) THEN RefOutcome(NoRefReport, "borrowed")
      ELSE IF isClosureCapture(P, trackedVariable.scope, ScopeOf(P, m))
           THEN RefOutcome(NoRefReport, "closure")
      ELSE IF idx0 = 0 THEN RefOutcome(NoRefReport, "not-found")
      ELSE IF ConsumedBefore(P, SubSeq(allRefs, 1, idx0 - 1), target.targetPath)
           THEN RefOutcome(NoRefReport, "consumed-before")
      ELSE IF Len(after) = 0
           THEN RefOutcome([node |-> m, messageId |-> "unnecessaryRef",
                            name |-> target.targetPath, props |-> <<>>,
                            fix |-> removeRef(P, m), suggest |-> <<>>], "report")
      ELSE IF LaterRefAccess(P, after, target.targetPath)
           THEN RefOutcome(NoRefReport, "later-ref")
      ELSE IF AllNonConsuming(P, after, target.targetPath) /\ Len(props) > 0
           THEN RefOutcome([node |-> m, messageId |-> "unnecessaryRefOnlyProps",
                            name |-> target.targetPath, props |-> props,
                            fix |-> NoFix,
                            suggest |-> IF lastRead # 0
                                        THEN <<addDispose(P, target.targetPath, lastRead)>>
                                        ELSE <<>>], "report")
      ELSE RefOutcome(NoRefReport, "needed")

(* 'MemberExpression[property.name="ref"][computed=false]'(node).  No
   variable has a dotted name, so a dotted target path resolves through its
   root. *)
CheckRef(P, m) ==
  LET target       == getTrackedTarget(P, ChildAt(P, m, "object"))
      scope        == ScopeOf(P, m)
      variable0    == IF Len(target.targetPath) = 1
                      THEN findVariableByName(P, scope, target.targetPath[1])
                      ELSE NoVariable
      rootVariable == findVariableByName(P, scope, target.rootName)
      trackedVariable == IF variable0 # NoVariable THEN variable0 ELSE rootVariable
  IN  IF target = NoTarget THEN RefOutcome(NoRefReport, "no-target")
      ELSE IF trackedVariable = NoVariable THEN RefOutcome(NoRefReport, "no-variable")
      ELSE CheckTracked(P, m, target, trackedVariable)

(* The nodes the selector matches. *)
RefMembers(P) ==
  {m \in 1..Len(P) :
     /\ P[m].type = "MemberExpression"
     /\ P[m].name # "computed"
     /\ TypeOf(P, ChildAt(P, m, "property")) = "Identifier"
     /\ P[ChildAt(P, m, "property")].name = "ref"}

(* No edit applied yet. *)
NoEdit == [report |-> NoRefReport, kind |-> "", output |-> <<>>]

(***************************************************************************)
(* The per-binding pass of no-use-after-consume (VariableDeclarator).      *)
(*                                                                         *)
(* A pass state is the four locals of the handler.                         *)
(***************************************************************************)
PassState(by, inIf, inCond, inLoop) ==
  [consumedBy |-> by, consumedInIf |-> inIf, consumedInConditional |-> inCond,
   consumedInLoop |-> inLoop]

Cleared == PassState(NoSite, 0, 0, 0)

(* Variant of the write reset that drops the tags but keeps the site. *)
WriteResetTagsOnly(st) == PassState(st.consumedBy, 0, 0, 0)

(* A write reference resets consumption tracking. *)
WriteReset(st) == Cleared

(* Variant of the terminating-if reset that leaves the other two tags. *)
IfResetSiteOnly(P, st, ref) ==
  IF st.consumedBy # NoSite /\ st.consumedInIf # 0
       /\ Start(P, ref) >= End(P, st.consumedInIf)
  THEN [st EXCEPT !.consumedBy = NoSite, !.consumedInIf = 0] ELSE st

(* The three dominance resets, in the order of the code. *)
IfReset(P, st, ref) ==
  IF st.consumedBy # NoSite /\ st.consumedInIf # 0
       /\ Start(P, ref) >= End(P, st.consumedInIf)
  THEN Cleared ELSE st

(* Variant of the conditional reset that drops the tag but keeps the site. *)
ConditionalResetTagOnly(P, st, ref) ==
  IF st.consumedBy # NoSite /\ st.consumedInConditional # 0
       /\ Start(P, ref) >= End(P, st.consumedInConditional)
  THEN [st EXCEPT !.consumedInConditional = 0] ELSE st

ConditionalReset(P, st, ref) ==
  IF st.consumedBy # NoSite /\ st.consumedInConditional # 0
       /\ Start(P, ref) >= End(P, st.consumedInConditional)
  THEN Cleared ELSE st

(* Variant of the loop reset that compares with the start of the loop. *)
LoopResetFromLoopStart(P, st, ref) ==
  IF st.consumedBy # NoSite /\ st.consumedInLoop # 0
       /\ Start(P, ref) >= Start(P, st.consumedInLoop)
  THEN Cleared ELSE st

LoopReset(P, st, ref) ==
  IF st.consumedBy # NoSite /\ st.consumedInLoop # 0
       /\ Start(P, ref) >= End(P, st.consumedInLoop)
  THEN Cleared ELSE st

(* Variant of the resets without the loop reset. *)
DominanceResetsWithoutLoop(P, st, ref) ==
  ConditionalReset(P, IfReset(P, st, ref), ref)

DominanceResets(P, st, ref) ==
  LoopReset(P, ConditionalReset(P, IfReset(P, st, ref), ref), ref)

(* context.report: the violation and its suggested edit. *)
NoReport ==
  [node |-> 0, name |-> "", site |-> 0, consumedBy |-> "", consumedLine |-> 0,
   fixAfter |-> 0, fixText |-> ""]

(* Variant of the report whose edit lands on the offending reference. *)
ReportFixAtUse(P, ref, varName, site) ==
  [node |-> ref, name |-> varName, site |-> site.identifier,
   consumedBy |-> site.description, consumedLine |-> P[site.identifier].line,
   fixAfter |-> ref, fixText |-> ".ref"]

(* Variant of the report that names the offending reference as the site. *)
ReportBlamingUse(P, ref, varName, site) ==
  [node |-> ref, name |-> varName, site |-> ref,
   consumedBy |-> site.description, consumedLine |-> P[ref].line,
   fixAfter |-> ref, fixText |-> ".ref"]

Report(P, ref, varName, site) ==
  [node |-> ref, name |-> varName, site |-> site.identifier,
   consumedBy |-> site.description, consumedLine |-> P[site.identifier].line,
   fixAfter |-> site.identifier, fixText |-> ".ref"]

Outcome(st, report, outcome) == [st |-> st, report |-> report, outcome |-> outcome]

(* Consuming-site detection for a read with no active consumer. *)
DetectSite(P, sourceLines, variableScope, varName, st, ref) ==
  LET site == getConsumingSite(P, ref)
  IN  IF isInNestedFunction(P, ref, variableScope) THEN Outcome(st, NoReport, "closure")
      ELSE IF site # NoSite /\ ~isConsumeAndReassign(P, ref, varName)
           THEN IF site.kind = "argument" /\ lineHasJaxBorrow(P, sourceLines, site.identifier)
                THEN Outcome(st, NoReport, "borrow")
                ELSE Outcome(PassState(site,
                                       getTerminatingIfAncestor(P, ref),
                                       getConditionalAncestor(P, ref),
                                       getEnclosingLoop(P, ref)),
                             NoReport, "site")
      ELSE Outcome(st, NoReport, "none")

(* Variant in which a reported reference that is itself a consuming read
   takes over as the active site. *)
AfterReportTakesOver(P, st, ref) ==
  IF getConsumingSite(P, ref) # NoSite
  THEN PassState(getConsumingSite(P, ref), getTerminatingIfAncestor(P, ref),
                 getConditionalAncestor(P, ref), getEnclosingLoop(P, ref))
  ELSE st

(* context.report(...); continue; : the locals after a report. *)
AfterReport(P, st, ref) == st

(* One iteration of the loop over refs. *)
ProcessRef(P, sourceLines, variableScope, varName, st, ref) ==
  IF isWrite(P, ref) THEN Outcome(WriteReset(st), NoReport, "write")
  ELSE IF ~isRead(P, ref) THEN Outcome(st, NoReport, "notread")
  ELSE
    LET s3 == DominanceResets(P, st, ref)
        siteInOtherBranch == getConsumingSite(P, ref)
    IN
    IF s3.consumedBy # NoSite /\ isInArgumentsOfSameConsumingCall(P, ref, s3.consumedBy)
    THEN Outcome(s3, NoReport, "evalorder")
    ELSE IF s3.consumedBy # NoSite
            /\ areInMutuallyExclusiveBranches(P, ref, s3.consumedBy.identifier)
         THEN IF siteInOtherBranch # NoSite /\ ~isConsumeAndReassign(P, ref, varName)
              THEN Outcome(PassState(siteInOtherBranch,
                                     getTerminatingIfAncestor(P, ref),
                                     0,
                                     getEnclosingLoop(P, ref)),
                           NoReport, "promote")
              ELSE DetectSite(P, sourceLines, variableScope, varName, Cleared, ref)
    ELSE IF s3.consumedBy # NoSite
         THEN Outcome(AfterReport(P, s3, ref), Report(P, ref, varName, s3.consumedBy), "report")
    ELSE DetectSite(P, sourceLines, variableScope, varName, s3, ref)

(* The whole handler as a function of the file: the reports of one call. *)
RECURSIVE RunLoop(_, _, _, _, _, _, _)
RunLoop(P, sourceLines, variableScope, varName, rs, i, acc) ==
  IF i > Len(rs) THEN acc.reports
  ELSE LET out == ProcessRef(P, sourceLines, variableScope, varName, acc.st, rs[i])
       IN  RunLoop(P, sourceLines, variableScope, varName, rs, i + 1,
                   [st |-> out.st,
                    reports |-> IF out.report # NoReport
                                THEN Append(acc.reports, out.report)
                                ELSE acc.reports])

Analyze(P, sourceLines, d) ==
  LET id == ChildAt(P, d, "id")
  IN  IF TypeOf(P, id) # "Identifier" \/ ~isArrayInit(P, ChildAt(P, d, "init"))
      THEN <<>>
      ELSE RunLoop(P, sourceLines, findVariable(P, d), P[id].name,
                   References(P, d), 1, [st |-> Cleared, reports |-> <<>>])

(***************************************************************************)
(* State.                                                                  *)
(*   prog      the linted file: nodes (the tree) and lines (source text)   *)
(*   pc        "idle" before the handler runs, "loop" inside the loop over *)
(*             refs, "done" after the handler returned                     *)
(*   node      the VariableDeclarator the handler was called with          *)
(*   varName, variable  the declared name and the scope that declares it   *)
(*   refs, idx the reference list and the loop position                    *)
(*   consumedBy, consumedInIf, consumedInConditional, consumedInLoop       *)
(*             the handler's locals                                        *)
(*   reports   the violations reported so far                              *)
(*   log       per processed reference: the pass state before it and what  *)
(*             the iteration did                                           *)
(*   finished  the handler calls that returned before the current one:    *)
(*             their declarator, their reports and the locals they left    *)
(*   applied   the report whose suggestion was applied to the file         *)
(*   fixedProg, fixedReports  the tree after that edit and what the rule   *)
(*             reports for the binding when the edited file is linted      *)
(***************************************************************************)
VARIABLES prog, pc, node, varName, variable, refs, idx, consumedBy, consumedInIf,
          consumedInConditional, consumedInLoop, reports, log, applied, fixedProg,
          fixedReports, finished, seen, refReports, refLog, refFix, leakReports

vars == <<prog, pc, node, varName, variable, refs, idx, consumedBy, consumedInIf,
          consumedInConditional, consumedInLoop, reports, log, applied, fixedProg,
          fixedReports, finished, seen, refReports, refLog, refFix, leakReports>>

Current == PassState(consumedBy, consumedInIf, consumedInConditional, consumedInLoop)

Declarators(P) == {n \in 1..Len(P) : P[n].type = "VariableDeclarator"}

(* Variant in which the locals live outside the handler and keep what the
   previous call left in them. *)
EntryLocalsCarried(st) == st

(* `let consumedBy = null`, ... : the locals of a handler call. *)
EntryLocals(st) == Cleared

(* The declarators the handler has been called with. *)
Visited == {finished[i].node : i \in 1..Len(finished)} \cup (IF pc = "done" THEN {node} ELSE {})

(* The handler is called once per declarator of the file; a call starts when
   no other call is running. *)
VariableDeclarator(d) ==
  /\ pc \in {"idle", "done"}
  /\ d \notin Visited
  /\ finished' = IF pc = "done"
                 THEN Append(finished, [node |-> node, reports |-> reports, last |-> Current])
                 ELSE finished
  /\ node' = d
  /\ LET P    == prog.nodes
         id   == ChildAt(P, d, "id")
         init == ChildAt(P, d, "init")
     IN  IF TypeOf(P, id) # "Identifier" \/ ~isArrayInit(P, init)
         THEN /\ pc' = "done"
              /\ varName' = ""
              /\ variable' = 0
              /\ refs' = <<>>
         ELSE /\ pc' = "loop"
              /\ varName' = P[id].name
              /\ variable' = findVariable(P, d)
              /\ refs' = References(P, d)
  /\ idx' = 1
  /\ consumedBy' = EntryLocals(Current).consumedBy
  /\ consumedInIf' = EntryLocals(Current).consumedInIf
  /\ consumedInConditional' = EntryLocals(Current).consumedInConditional
  /\ consumedInLoop' = EntryLocals(Current).consumedInLoop
  /\ reports' = <<>>
  /\ log' = <<>>
  /\ UNCHANGED <<prog, applied, fixedProg, fixedReports, seen, refReports, refLog, refFix,
                 leakReports>>

(* One iteration of `for (const ref of refs)`. *)
Iterate ==
  /\ pc = "loop"
  /\ idx <= Len(refs)
  /\ \E out \in {ProcessRef(prog.nodes, prog.lines, variable, varName, Current,
                            refs[idx])} :
       /\ consumedBy' = out.st.consumedBy
       /\ consumedInIf' = out.st.consumedInIf
       /\ consumedInConditional' = out.st.consumedInConditional
       /\ consumedInLoop' = out.st.consumedInLoop
       /\ reports' = IF out.report # NoReport THEN Append(reports, out.report)
                     ELSE reports
       /\ log' = Append(log, [ref |-> refs[idx], before |-> Current,
                              outcome |-> out.outcome])
  /\ idx' = idx + 1
  /\ UNCHANGED <<prog, pc, node, varName, variable, refs, applied, fixedProg, fixedReports,
                 finished, seen, refReports, refLog, refFix, leakReports>>

WriteRef ==
  /\ pc = "loop"
  /\ idx <= Len(refs)
  /\ isWrite(prog.nodes, refs[idx])
  /\ Iterate

ReadRef ==
  /\ pc = "loop"
  /\ idx <= Len(refs)
  /\ ~isWrite(prog.nodes, refs[idx])
  /\ Iterate

Finish ==
  /\ pc = "loop"
  /\ idx > Len(refs)
  /\ pc' = "done"
  /\ UNCHANGED <<prog, node, varName, variable, refs, idx, consumedBy, consumedInIf,
                 consumedInConditional, consumedInLoop, reports, log, applied,
                 fixedProg, fixedReports, finished, seen, refReports, refLog, refFix, leakReports>>

(* fixer.insertTextAfter(identifier, ".ref"), read as the tree the edited
   text parses to: the identifier becomes the object of a new member
   expression that takes its place, the nodes after it move by two. *)
SuffixProperty(text) == IF text = ".ref" THEN "ref" ELSE text

insertTextAfterDropped(P, n, text) == P

insertTextAfter(P, n, text) ==
  LET mem  == [N("MemberExpression", "", "") EXCEPT
                 !.slot = P[n].slot, !.up = P[n].up, !.size = 3, !.line = P[n].line]
      obj  == [P[n] EXCEPT !.slot = "object", !.up = 1]
      prop == [N("Identifier", SuffixProperty(text), "") EXCEPT
                 !.slot = "property", !.up = 2, !.line = P[n].line]
      head == [j \in 1..(n - 1) |->
                 IF n < j + P[j].size THEN [P[j] EXCEPT !.size = @ + 2] ELSE P[j]]
      tail == [j \in 1..(Len(P) - n) |->
                 IF (n + j) - P[n + j].up < n THEN [P[n + j] EXCEPT !.up = @ + 2]
                 ELSE P[n + j]]
  IN  head \o <<mem, obj, prop>> \o tail

(* Where a node of the file is found after the edit at n. *)
MovedBy(n, m) == IF m < n THEN m ELSE IF m = n THEN m + 1 ELSE m + 2

(* The suggestion of the i-th report is applied and the edited file is linted
   again: the handler runs on the same declarator of the new tree. *)
ApplySuggestion(i) ==
  /\ pc = "done"
  /\ i \in 1..Len(reports)
  /\ pc' = "fixed"
  /\ applied' = reports[i]
  /\ fixedProg' = insertTextAfter(prog.nodes, reports[i].fixAfter, reports[i].fixText)
  /\ fixedReports' = Analyze(fixedProg', prog.lines, MovedBy(reports[i].fixAfter, node))
  /\ UNCHANGED <<prog, node, varName, variable, refs, idx, consumedBy, consumedInIf,
                 consumedInConditional, consumedInLoop, reports, log, finished, seen,
                 refReports, refLog, refFix, leakReports>>

(***************************************************************************)
(* Files.  A file is one function whose body declares the binding and then *)
(* holds one statement per source line.                                    *)
(***************************************************************************)
WithLine(frag, ln) ==
  [i \in 1..Len(frag) |-> IF frag[i].line = 0 THEN [frag[i] EXCEPT !.line = ln]
                          ELSE frag[i]]

(* Statement k of the body sits on line k + 1; line 1 is the function head.
   An empty fragment is a line without a statement (blank or comment only). *)
File(stmts, lineTexts) ==
  [nodes |-> WithLine(FunctionDecl(Block(SelectSeq(
                        [k \in 1..Len(stmts) |-> WithLine(stmts[k], k + 1)],
                        LAMBDA f : f # <<>>))), 1),
   lines |-> lineTexts]

Code == <<"code">>
PlainLines(n) == [k \in 1..(n + 1) |-> Code]

RECURSIVE SeqsUpTo(_, _)
SeqsUpTo(S, n) ==
  IF n = 0 THEN {<<>>}
  ELSE LET shorter == SeqsUpTo(S, n - 1)
       IN  shorter \cup {<<a>> \o t : a \in S, t \in {q \in shorter : Len(q) = n - 1}}

Stmts(seq) == SelectSeq(seq, LAMBDA f : f # <<>>)

(***************************************************************************)
(* Bounds of the generated files.                                          *)
(***************************************************************************)
MaxStmts == 3   \* statements of a straight-line file
MaxLead == 1    \* statements between the declaration and a compound statement
MaxTrail == 2   \* statements after a compound statement

(***************************************************************************)
(* Vocabulary of the generated files: uses of the binding x.               *)
(***************************************************************************)
Ref(name) == Id(name, "r")
X == Ref("x")
One == Lit("1")
Other == Ref("other")
Test == Ref("c")
NpZeros == Call(Member(Ref("np"), "zeros"), <<Lit("3")>>)
DeclX(init) == VarDecl("let", Declarator(Id("x", "w"), init))

UseMethod == Call(Member(X, "add"), <<One>>)                \* x.add(1)
UseProp == Member(X, "shape")                               \* x.shape
UseArg == Call(Ref("foo"), <<X>>)                           \* foo(x)
UseSafeArg == Call(Member(Ref("console"), "log"), <<X>>)    \* console.log(x)
UseClosure == Call(Ref("g"), <<Arrow(UseMethod)>>)          \* g(() => x.add(1))
WriteFresh == Assign("=", Id("x", "w"), NpZeros)            \* x = np.zeros(3)
WriteReassign == Assign("=", Id("x", "w"), UseMethod)       \* x = x.add(1)
WriteInClosure == Call(Ref("g"), <<Arrow(WriteFresh)>>)     \* g(() => x = np.zeros(3))

ExprAtoms == {UseMethod, UseProp, UseArg, UseClosure, WriteFresh, WriteReassign, Other}
StmtAtoms == {ExprStmt(e) : e \in ExprAtoms \ {Other}} \cup {<<>>}
Terminators == {<<>>, ReturnVoid}

StraightAtoms ==
  {ExprStmt(e) : e \in {UseMethod, UseProp, UseArg, UseSafeArg, UseClosure, WriteFresh,
                        WriteReassign, WriteInClosure}}
LeadAtoms == {ExprStmt(UseMethod)}
TrailAtoms == {ExprStmt(UseProp), ExprStmt(UseMethod)}

(* Straight-line files. *)
StraightBodies == SeqsUpTo(StraightAtoms, MaxStmts)

(* Compound statements: two slots a, b filled with uses of x. *)
Ternaries == {ExprStmt(Cond(Test, a, b)) : a \in ExprAtoms, b \in ExprAtoms}
Logicals ==
  {ExprStmt(Logical("&&", a, b)) : a \in ExprAtoms, b \in ExprAtoms}
    \cup {ExprStmt(Logical(op, Other, b)) : op \in {"||", "??"}, b \in ExprAtoms}
TernaryTests == {ExprStmt(Cond(a, Other, b)) : a \in {UseMethod, UseProp}, b \in ExprAtoms}
Declared ==
  {VarDecl("const", Declarator(Id("y", "w"), e)) :
     e \in {Cond(Test, UseMethod, b) : b \in {Other, UseMethod}}
             \cup {Logical("&&", Test, UseMethod)}}
NestedConds ==
  UNION {{ExprStmt(Logical("&&", Test, Cond(Test, a, b))),
          ExprStmt(Cond(Test, Cond(Test, a, Other), b)),
          ExprStmt(Cond(Test, a, Cond(Test, b, Other))),
          ExprStmt(Logical("&&", Cond(Test, a, Other), b)),
          ExprStmt(Cond(Test, Logical("&&", Test, a), b))} :
           a \in {UseMethod, UseProp}, b \in {UseMethod, UseProp}}
IfElses ==
  {IfElse(Test, Block(Stmts(<<a, t1>>)), Block(Stmts(<<b, t2>>))) :
     a \in StmtAtoms, b \in StmtAtoms, t1 \in Terminators, t2 \in Terminators}
IfThens ==
  {If(Test, Block(Stmts(<<a, b, t>>))) : a \in StmtAtoms, b \in StmtAtoms, t \in Terminators}
IfBare ==
  {IfElse(Test, a, b) : a \in {Return(UseMethod), Throw(UseMethod), ExprStmt(UseMethod)},
                        b \in {ExprStmt(UseProp), ExprStmt(UseMethod), Return(UseMethod)}}
    \cup {If(Test, a) : a \in {Return(UseMethod), Throw(UseMethod), ExprStmt(UseMethod)}}
NestedIfs ==
  {If(Test, Block(Stmts(<<If(Test, Block(Stmts(<<a, t1>>))), b, t2>>))) :
     a \in {ExprStmt(UseMethod), ExprStmt(UseProp)},
     b \in {ExprStmt(UseMethod), ExprStmt(UseProp), <<>>},
     t1 \in Terminators, t2 \in Terminators}
    \cup
  {IfElse(Test, Block(<<IfElse(Test, Block(Stmts(<<a, t1>>)), Block(Stmts(<<b, t2>>)))>>),
          Block(<<ExprStmt(Other)>>)) :
     a \in {ExprStmt(UseMethod), ExprStmt(UseProp)},
     b \in {ExprStmt(UseMethod), <<>>},
     t1 \in Terminators, t2 \in Terminators}
Whiles == {While(Test, Block(Stmts(<<a, b>>))) : a \in StmtAtoms, b \in StmtAtoms}
OtherLoops ==
  {DoWhile(Block(Stmts(<<a>>)), b) : a \in StmtAtoms, b \in {Test, UseProp, UseMethod}}
    \cup {For(Test, a) : a \in StmtAtoms \ {<<>>}}
    \cup {ForOf(VarDecl("const", DeclaratorNoInit(Id("e", "w"))), Other, Block(Stmts(<<a>>))) :
            a \in StmtAtoms}
    \cup {ForIn(VarDecl("const", DeclaratorNoInit(Id("k", "w"))), Other, Block(Stmts(<<a>>))) :
            a \in StmtAtoms}
SameCall ==
  {ExprStmt(Call(Member(X, "reshape"), <<b>>)) : b \in ExprAtoms}
    \cup {ExprStmt(Call(Ref("foo"), <<X, b>>)) : b \in ExprAtoms}
    \cup {ExprStmt(Call(Member(X, "reshape"), <<ArrayLit(<<One, Spread(UseProp)>>)>>))}

Compounds ==
  Ternaries \cup Logicals \cup TernaryTests \cup Declared \cup NestedConds \cup IfElses
    \cup IfThens \cup IfBare \cup NestedIfs \cup Whiles \cup OtherLoops \cup SameCall

FlowBodies ==
  {lead \o <<mid>> \o trail :
     lead \in SeqsUpTo(LeadAtoms, MaxLead),
     mid \in Compounds,
     trail \in SeqsUpTo(TrailAtoms, MaxTrail)}

(* Files that vary the syntactic form of one use of x. *)
PropNames ==
  EXTRACTED_GETTERS \cup EXTRACTED_METHODS \cup NON_CONSUMING_METHODS
    \cup CONSUMING_TERMINAL_METHODS \cup {"foo"}
CalleeNames == SAFE_CALLEE_NAMES \cup {"foo"}
CalleeObjects == SAFE_CALLEE_OBJECTS \cup {"np", "obj"}
Uses ==
  {Member(X, p) : p \in PropNames}
    \cup {Call(Member(X, p), <<>>) : p \in PropNames}
    \cup {Call(Member(Member(X, "ref"), "add"), <<One>>),
          Call(MemberComputed(X, Lit("'add'")), <<One>>),
          MemberComputed(X, Lit("0"))}
    \cup {Call(Ref(f), <<X>>) : f \in CalleeNames}
    \cup {Call(Member(Ref(o), "process"), <<X>>) : o \in CalleeObjects}
    \cup {Call(MemberComputed(Ref("console"), Lit("'log'")), <<X>>),
          Call(Member(Member(Ref("lax"), "linalg"), "cholesky"), <<X>>),
          Call(Member(Member(Ref("console"), "a"), "b"), <<X>>),
          Call(Member(Call(Ref("expect"), <<X>>), "toBeDefined"), <<>>),
          Call(Member(Ref("np"), "multiply"), <<X, Lit("2")>>),
          Call(Ref("foo"), <<One, X>>),
          Call(<<N("Super", "", "")>>, <<X>>),
          Call(X, <<One>>),
          Call(X, <<X>>),
          Call(Ref("foo"), <<UseProp>>),
          Call(Ref("foo"), <<ArrayLit(<<X>>)>>),
          Call(Ref("foo"), <<Spread(X)>>),
          Call(Ref("g"), <<Arrow(UseArg)>>),
          Call(Ref("g"), <<FunctionExpr(Block(<<ExprStmt(UseArg)>>))>>),
          Assign("=", Id("x", "w"), UseArg),
          Assign("=", Id("x", "w"), Cond(Test, UseArg, Other)),
          Assign("=", Id("x", "w"), Lit("5")),
          X}
VocabularyBodies ==
  {lead \o <<s>> \o trail :
     lead \in {<<>>, <<ExprStmt(UseMethod)>>},
     s \in {ExprStmt(u) : u \in Uses} \cup {Return(X)},
     trail \in {<<>>, <<ExprStmt(UseProp)>>}}

(* Files around an assignment back to x. *)
ReassignRhs ==
  {UseMethod, UseArg, UseClosure, Cond(Test, UseArg, Other),
   Call(Ref("foo"), <<UseMethod, X>>), Assign("=", Id("y", ""), UseMethod)}
ReassignStmts ==
  UNION {{ExprStmt(Assign("=", Id("x", "w"), e)),
          ExprStmt(Assign("+=", Id("x", "rw"), e)),
          ExprStmt(Cond(Test, UseMethod, Assign("=", Id("x", "w"), e))),
          While(Test, Block(<<ExprStmt(Assign("=", Id("x", "w"), e))>>))} :
           e \in ReassignRhs}
ReassignBodies ==
  {lead \o <<s>> \o trail :
     lead \in {<<>>, <<ExprStmt(UseMethod)>>},
     s \in ReassignStmts,
     trail \in {<<>>, <<ExprStmt(UseProp)>>}}

(* Files that reassign x to a value that is not an array. *)
WriteNonProducer == Assign("=", Id("x", "w"), Lit("5"))     \* x = 5
NonProducerBodies ==
  {lead \o <<ExprStmt(WriteNonProducer), ExprStmt(u)>> \o trail :
     lead \in {<<>>, <<ExprStmt(UseMethod)>>},
     u \in {UseMethod, UseArg, UseProp},
     trail \in {<<>>, <<ExprStmt(UseProp)>>}}

(* Files that declare two arrays and use both. *)
Z == Ref("z")
TwoBindingAtoms ==
  {ExprStmt(e) : e \in {UseMethod, UseProp, Call(Member(Z, "add"), <<One>>),
                        Member(Z, "shape"), Call(Ref("foo"), <<X, Z>>)}}
TwoBindingFiles ==
  {File(<<DeclX(NpZeros), VarDecl("let", Declarator(Id("z", "w"), NpZeros))>> \o b,
        PlainLines(Len(b) + 2)) :
     b \in SeqsUpTo(TwoBindingAtoms, MaxStmts)}

(* Files with a switch statement or a try statement. *)
SwitchStmts ==
  {Switch(Test, <<SwitchCase(One, <<ExprStmt(a), Break>>),
                  SwitchCase(Lit("2"), <<ExprStmt(b), Break>>)>>) :
     a \in {UseMethod, UseArg}, b \in {UseMethod, UseProp}}
TryStmts ==
  {Try(Block(<<ExprStmt(a)>>), CatchClause(Block(<<ExprStmt(b)>>))) :
     a \in {UseMethod, UseArg}, b \in {UseProp, Other}}
    \cup {TryFinally(Block(<<ExprStmt(UseMethod)>>), Block(<<ExprStmt(b)>>)) :
            b \in {UseProp, Other}}
UnsupportedBodies ==
  {<<s>> \o trail :
     s \in SwitchStmts \cup TryStmts,
     trail \in {<<>>, <<ExprStmt(UseProp)>>, <<ExprStmt(UseMethod)>>}}

(* Files with a conditional inside a loop body. *)
UseDispose == Call(Member(X, "dispose"), <<>>)                \* x.dispose()
LoopAtoms == {UseMethod, UseProp, UseClosure}
LoopExits == {<<>>, Break, Continue}
LoopInner ==
  {ExprStmt(Cond(Test, a, b)) : a \in LoopAtoms, b \in LoopAtoms}
    \cup {IfElse(Test, Block(Stmts(<<ExprStmt(a), t1>>)), Block(Stmts(<<ExprStmt(b), t2>>))) :
            a \in LoopAtoms, b \in LoopAtoms, t1 \in LoopExits, t2 \in LoopExits}
LoopStmts ==
  {While(Test, Block(Stmts(<<inner, last>>))) :
     inner \in LoopInner, last \in {<<>>, ExprStmt(UseProp)}}
    \cup {While(Test, Block(<<ExprStmt(UseMethod), ExprStmt(UseProp), ExprStmt(w)>>)) :
            w \in {WriteFresh, WriteReassign, UseProp}}
    \cup {While(Test, Block(<<While(Test, Block(<<ExprStmt(UseMethod)>>)), ExprStmt(UseProp)>>)),
          While(Test, Block(<<ExprStmt(UseProp), ExprStmt(UseMethod), ExprStmt(UseProp)>>))}
LoopBodies ==
  {<<s>> \o trail :
     s \in LoopStmts,
     trail \in {<<>>, <<ExprStmt(UseProp)>>, <<ExprStmt(UseDispose)>>}}
    \cup {<<While(Test, Block(<<ExprStmt(UseMethod)>>)), ExprStmt(UseDispose), ExprStmt(UseProp)>>}

(* Files whose if branch holds the consuming use and ends with a statement
   of each kind. *)
LastStatements ==
  {ReturnVoid, Throw(Other), ExprStmt(Other), Block(<<ReturnVoid>>), Block(<<>>),
   While(Test, Block(<<ReturnVoid>>)),
   DoWhile(Block(<<ReturnVoid>>), Test),
   Switch(Test, <<SwitchCase(One, <<ReturnVoid>>)>>),
   Try(Block(<<ReturnVoid>>), CatchClause(Block(<<ReturnVoid>>))),
   TryFinally(Block(<<ReturnVoid>>), Block(<<ReturnVoid>>)),
   If(Test, ReturnVoid),
   IfElse(Test, ReturnVoid, Throw(Other)),
   IfElse(Test, Block(<<ReturnVoid>>), Block(<<>>)),
   IfElse(Test, Block(<<ExprStmt(Other)>>), ReturnVoid),
   IfElse(Test, Block(<<If(Test, ReturnVoid), Throw(Other)>>), Block(<<Block(<<ReturnVoid>>)>>))}
TerminationBodies ==
  {<<If(Test, Block(<<ExprStmt(UseMethod), last>>)), ExprStmt(UseProp)>> : last \in LastStatements}
    \cup {<<IfElse(Test, Block(<<>>), Block(<<ExprStmt(UseMethod), last>>)), ExprStmt(UseProp)>> :
            last \in LastStatements}
    \cup {<<If(Test, Block(<<ReturnVoid, ExprStmt(UseMethod)>>)), ExprStmt(UseProp)>>,
          <<If(UseMethod, ReturnVoid), ExprStmt(UseProp)>>,
          <<If(Test, Block(<<If(Test, ExprStmt(UseMethod)), ReturnVoid>>)), ExprStmt(UseProp)>>,
          <<If(Test, Block(<<If(Test, Block(<<ExprStmt(UseMethod), ReturnVoid>>)), ExprStmt(UseProp)>>)),
            ExprStmt(UseProp)>>}

PlainFiles ==
  {File(<<DeclX(NpZeros)>> \o b, PlainLines(Len(b) + 1)) :
     b \in StraightBodies \cup FlowBodies \cup VocabularyBodies \cup ReassignBodies
            \cup LoopBodies \cup NonProducerBodies
            \cup UnsupportedBodies \cup TerminationBodies}

(* Files that vary the initializer of the declaration. *)
Inits ==
  {NpZeros,
   Call(Ref("zeros"), <<Lit("3")>>),
   Call(Member(Other, "reshape"), <<One>>),
   Member(Other, "ref"),
   Await(NpZeros),
   Wrapper("TSAsExpression", NpZeros),
   Wrapper("TSNonNullExpression", Member(Other, "ref")),
   Wrapper("ParenthesizedExpression", Await(Wrapper("TSSatisfiesExpression", NpZeros))),
   Wrapper("TSTypeAssertion", Call(Ref("zeros"), <<Lit("3")>>)),
   Call(Ref("getValue"), <<>>),
   Call(Member(Other, "add"), <<One>>),
   Call(MemberComputed(Ref("np"), Lit("'zeros'")), <<Lit("3")>>),
   MemberComputed(Other, Ref("ref")),
   Member(Other, "shape"),
   Await(Call(Ref("getValue"), <<>>)),
   Wrapper("TSAsExpression", Call(Ref("getValue"), <<>>)),
   Arrow(NpZeros),
   Lit("5"),
   Other}
InitBodies ==
  {<<ExprStmt(UseMethod), ExprStmt(UseProp)>>, <<ExprStmt(UseArg), ExprStmt(UseMethod)>>}
InitFiles ==
  {File(<<VarDecl("const", d)>> \o b, PlainLines(Len(b) + 1)) :
     d \in {Declarator(Id("x", "w"), i) : i \in Inits}
             \cup {DeclaratorNoInit(Id("x", "w")),
                   Declarator(Mk("ObjectPattern", "", <<>>), NpZeros)},
     b \in InitBodies}

(* Files with comments: one line of the file carries an annotation. *)
Annotations ==
  {<<"code", "//", "@jax-borrow">>,
   <<"code", "/*", "@jax-borrow", "*/">>,
   <<"/*", "@jax-borrow", "*/", "code">>,
   <<"//", "@jax-borrow">>,
   <<"code", "@jax-borrow">>,
   <<"@jax-borrow", "code", "//", "note">>,
   <<"code", "//", "note">>}
AnnotatedLines(n) ==
  {[k \in 1..n |-> IF k = at THEN text ELSE Code] : at \in 1..n, text \in Annotations}
CommentBodies ==
  {<<ExprStmt(UseArg), ExprStmt(UseProp)>>,
   <<<<>>, ExprStmt(UseArg), ExprStmt(UseProp)>>,
   <<ExprStmt(UseMethod), ExprStmt(UseProp)>>,
   <<ExprStmt(Call(Member(Ref("np"), "multiply"), <<X, Lit("2")>>)), ExprStmt(UseArg)>>,
   <<ExprStmt(Call(Ref("foo"), <<WithLine(X, 4)>>)), <<>>, ExprStmt(UseProp)>>,
   <<ExprStmt(Cond(Test, UseMethod, UseArg)), ExprStmt(UseProp)>>,
   <<ExprStmt(Cond(Test, UseArg, UseArg)), ExprStmt(UseProp)>>,
   <<ExprStmt(Logical("&&", Test, UseMethod)), ExprStmt(UseArg), ExprStmt(UseProp)>>,
   <<IfElse(Test, Block(<<ExprStmt(UseMethod)>>), Block(<<ExprStmt(UseArg)>>)),
     ExprStmt(UseProp)>>}
CommentFiles ==
  UNION {{File(<<DeclX(NpZeros)>> \o b, lines) : lines \in AnnotatedLines(Len(b) + 2)} :
           b \in CommentBodies}

Files == PlainFiles \cup InitFiles \cup CommentFiles \cup TwoBindingFiles

(***************************************************************************)
(* Specification.                                                          *)
(***************************************************************************)
Init ==
  /\ prog \in Files
  /\ pc = "idle"
  /\ node = 0
  /\ varName = ""
  /\ variable = 0
  /\ refs = <<>>
  /\ idx = 0
  /\ consumedBy = NoSite
  /\ consumedInIf = 0
  /\ consumedInConditional = 0
  /\ consumedInLoop = 0
  /\ reports = <<>>
  /\ log = <<>>
  /\ applied = NoReport
  /\ fixedProg = <<>>
  /\ fixedReports = <<>>
  /\ finished = <<>>
  /\ seen = {}
  /\ refReports = <<>>
  /\ refLog = <<>>
  /\ refFix = NoEdit
  /\ leakReports = <<>>

Next ==
  \/ \E d \in Declarators(prog.nodes) : VariableDeclarator(d)
  \/ WriteRef
  \/ ReadRef
  \/ Finish
  \/ \E i \in 1..Len(reports) : ApplySuggestion(i)

Spec == Init /\ [][Next]_vars

(* fixer.removeRange, read as the tree the edited text parses to: the member
   expression that ends with the last removed token is replaced by the object
   of the one that holds the first. *)
removeRange(P, fix) ==
  LET a    == parentOf(P, fix.to)
      obj  == ChildAt(P, fix.from, "object")
      k    == P[obj].size
      d    == P[a].size - k
      head == [j \in 1..(a - 1) |->
                 IF a < j + P[j].size THEN [P[j] EXCEPT !.size = @ - d] ELSE P[j]]
      mid  == [j \in 1..k |->
                 IF j = 1 THEN [P[obj] EXCEPT !.slot = P[a].slot, !.up = P[a].up]
                 ELSE P[obj + j - 1]]
      tail == [j \in 1..(Len(P) + 1 - (a + P[a].size)) |->
                 LET q == a + P[a].size + j - 1
                 IN  IF q - P[q].up < a THEN [P[q] EXCEPT !.up = @ - d] ELSE P[q]]
  IN  head \o mid \o tail

(* The statement a text "\n" name "." "dispose" "()" ";" parses to. *)
RECURSIVE MemberChain(_, _)
MemberChain(obj, names) ==
  IF names = <<>> THEN obj ELSE MemberChain(Member(obj, Head(names)), Tail(names))

ParseCallStatement(text) ==
  ExprStmt(Call(MemberChain(Ref(text[2]), SubSeq(text, 3, Len(text) - 2)), <<>>))

(* fixer.insertTextAfterRange([end, end], text) at the end of a statement:
   the new statement becomes the next one of the same block, on a line of
   its own. *)
insertTextAfterRange(P, stmt, text) ==
  LET e    == stmt + P[stmt].size
      frag == WithLine(ParseCallStatement(text), P[stmt].line + 1)
      new  == [frag EXCEPT ![1].slot = P[stmt].slot, ![1].up = e - parentOf(P, stmt)]
      head == [j \in 1..(e - 1) |->
                 IF j < stmt /\ stmt < j + P[j].size
                 THEN [P[j] EXCEPT !.size = @ + Len(frag)] ELSE P[j]]
      tail == [j \in 1..(Len(P) + 1 - e) |->
                 LET q == e + j - 1
                     n == [P[q] EXCEPT !.line = @ + 1]
                 IN  IF q - P[q].up < e THEN [n EXCEPT !.up = @ + Len(frag)] ELSE n]
  IN  head \o new \o tail

(***************************************************************************)
(* State of a lint run of no-unnecessary-ref.                              *)
(*   seen        the member expressions the handler was called with        *)
(*   refReports  the reports of the rule, in the order they were made      *)
(*   refLog      per handler call: its node and how the call ended         *)
(*   refFix      the edit that was applied after the run: its report and   *)
(*               the tree of the edited file                               *)
(***************************************************************************)
passVars == <<pc, node, varName, variable, refs, idx, consumedBy, consumedInIf,
              consumedInConditional, consumedInLoop, reports, log, applied, fixedProg,
              fixedReports, finished>>
refVars == <<seen, refReports, refLog, refFix>>

(* ESLint walks the tree in source order: the handler is called with the
   first member expression it has not been called with. *)
RefMemberExpression(m) ==
  /\ refFix = NoEdit
  /\ m \in RefMembers(prog.nodes) \ seen
  /\ \A o \in RefMembers(prog.nodes) \ seen : m <= o
  /\ seen' = seen \cup {m}
  /\ LET out == CheckRef(prog.nodes, m)
     IN  /\ refReports' = IF out.report # NoRefReport THEN Append(refReports, out.report)
                          ELSE refReports
         /\ refLog' = Append(refLog, [node |-> m, outcome |-> out.outcome])
  /\ UNCHANGED <<prog, refFix>>
  /\ UNCHANGED <<passVars, leakReports>>

(* The automatic fix of the i-th report is applied. *)
ApplyFix(i) ==
  /\ refFix = NoEdit
  /\ seen = RefMembers(prog.nodes)
  /\ i \in 1..Len(refReports)
  /\ refReports[i].fix # NoFix
  /\ refFix' = [report |-> refReports[i], kind |-> "fix",
                output |-> removeRange(prog.nodes, refReports[i].fix)]
  /\ UNCHANGED <<prog, seen, refReports, refLog>>
  /\ UNCHANGED <<passVars, leakReports>>

(* The suggestion of the i-th report is applied. *)
ApplyAddDispose(i) ==
  /\ refFix = NoEdit
  /\ seen = RefMembers(prog.nodes)
  /\ i \in 1..Len(refReports)
  /\ refReports[i].suggest # <<>>
  /\ refFix' = [report |-> refReports[i], kind |-> "suggestion",
                output |-> insertTextAfterRange(prog.nodes, refReports[i].suggest[1].after,
                                                refReports[i].suggest[1].text)]
  /\ UNCHANGED <<prog, seen, refReports, refLog>>
  /\ UNCHANGED <<passVars, leakReports>>

(***************************************************************************)
(* Files linted with no-unnecessary-ref.                                   *)
(***************************************************************************)
MaxRefStmts == 3   \* statements after the declaration

FileWith(params, stmts, lineTexts) ==
  [nodes |-> WithLine(FunctionDeclP(params, Block(SelectSeq(
                        [k \in 1..Len(stmts) |-> WithLine(stmts[k], k + 1)],
                        LAMBDA f : f # <<>>))), 1),
   lines |-> lineTexts]

KeepAlive(v) == Member(v, "ref")                               \* x.ref
RefChain(v) == Call(Member(KeepAlive(v), "dataSync"), <<>>)    \* x.ref.dataSync()
RefArg(v) == Call(Ref("foo"), <<KeepAlive(v)>>)                \* foo(x.ref)
RefAfterUse(v) ==                                              \* equal(x, min(x.ref))
  Call(Ref("equal"), <<v, Call(Ref("min"), <<KeepAlive(v)>>)>>)
RefInClosure(v) == Call(Ref("g"), <<Arrow(RefChain(v))>>)      \* g(() => x.ref.dataSync())
UseIndex == MemberComputed(X, Lit("0"))                        \* x[0]

RefAtoms ==
  {ExprStmt(e) : e \in {RefChain(X), RefArg(X), RefAfterUse(X), RefInClosure(X),
                        UseProp, UseMethod, UseArg, WriteFresh, UseIndex}}
    \cup {VarDecl("const", Declarator(Id("y", "w"), X)), If(Test, ExprStmt(UseProp))}

StraightRefFiles ==
  {File(<<DeclX(NpZeros)>> \o b, PlainLines(Len(b) + 1)) :
     b \in SeqsUpTo(RefAtoms, MaxRefStmts)}

(* Bindings that are parameters or loop variables. *)
Elem == Ref("t")
ParamBodies ==
  {<<s>> \o trail :
     s \in {ExprStmt(RefChain(Elem)), Return(KeepAlive(Elem)), ExprStmt(RefArg(Elem))},
     trail \in {<<>>, <<ExprStmt(Member(Elem, "shape"))>>, <<ExprStmt(Call(Ref("foo"), <<Elem>>))>>}}
Callbacks(b) ==
  {ExprStmt(Call(Member(Other, "map"), <<ArrowP(<<Param("t")>>, Block(b))>>)),
   ExprStmt(Call(Member(Other, "forEach"), <<FunctionExprP(<<Param("t")>>, Block(b))>>))}
OwnedFunctions(b) ==
  {VarDecl("const", Declarator(Id("f", "w"), ArrowP(<<Param("t")>>, Block(b)))),
   VarDecl("const", Declarator(Id("f", "w"), FunctionExprP(<<Param("t")>>, Block(b)))),
   ExprStmt(Call(ArrowP(<<Param("t")>>, Block(b)), <<Other>>)),
   FunctionDeclP(<<Param("t")>>, Block(b))}
LoopVariables(b) ==
  {ForOf(VarDecl("const", DeclaratorNoInit(Id("t", "w"))), Other, Block(b)),
   ForIn(VarDecl("const", DeclaratorNoInit(Id("t", "w"))), Other, Block(b))}
(* let t; for (t of other) { ... } *)
AssignedLoopVariable(b) ==
  <<VarDecl("let", DeclaratorNoInit(Id("t", ""))), ForOf(Id("t", "w"), Other, Block(b))>>
BorrowFiles ==
  UNION {{File(<<s>>, PlainLines(1)) : s \in Callbacks(b) \cup OwnedFunctions(b)
                                                 \cup LoopVariables(b)}
           \cup {FileWith(<<Param("t")>>, b, PlainLines(Len(b))),
                 File(AssignedLoopVariable(b), PlainLines(2))} :
         b \in ParamBodies}

(* Markers on a property path, and on names no scope declares. *)
PathFiles ==
  {File(<<VarDecl("const", Declarator(Id("o", "w"), Call(Ref("make"), <<>>))),
          ExprStmt(Call(Member(Member(Member(Ref("o"), "a"), "ref"), "dataSync"), <<>>))>>
          \o trail, PlainLines(2 + Len(trail))) :
     trail \in {<<>>, <<ExprStmt(Member(Member(Ref("o"), "a"), "shape"))>>,
                <<ExprStmt(Member(Ref("o"), "shape"))>>,
                <<ExprStmt(Call(Ref("foo"), <<Member(Ref("o"), "a")>>))>>}}
    \cup {File(<<ExprStmt(RefChain(Other))>>, PlainLines(1)),
          File(<<ExprStmt(Member(Call(Ref("make"), <<>>), "ref"))>>, PlainLines(1))}

RefFiles == StraightRefFiles \cup BorrowFiles \cup PathFiles

RefInit ==
  /\ prog \in RefFiles
  /\ pc = "idle"
  /\ node = 0
  /\ varName = ""
  /\ variable = 0
  /\ refs = <<>>
  /\ idx = 0
  /\ consumedBy = NoSite
  /\ consumedInIf = 0
  /\ consumedInConditional = 0
  /\ consumedInLoop = 0
  /\ reports = <<>>
  /\ log = <<>>
  /\ applied = NoReport
  /\ fixedProg = <<>>
  /\ fixedReports = <<>>
  /\ finished = <<>>
  /\ seen = {}
  /\ refReports = <<>>
  /\ refLog = <<>>
  /\ refFix = NoEdit
  /\ leakReports = <<>>

RefNext ==
  \/ \E m \in RefMembers(prog.nodes) : RefMemberExpression(m)
  \/ \E i \in 1..Len(refReports) : ApplyFix(i)
  \/ \E i \in 1..Len(refReports) : ApplyAddDispose(i)

RefSpec == RefInit /\ [][RefNext]_vars

(***************************************************************************)
(* require-consume: the never-released check.  The rule's file is not in   *)
(* the source tree; the check follows the description of the rule, the     *)
(* classification of references is that of shared.ts.                      *)
(***************************************************************************)
(* A reference that only reads a non-consuming property (shared.ts). *)
isNonConsumingReference(P, ref) ==
  LET parent == parentOf(P, ref)
  IN  IF parent = 0 THEN FALSE
      ELSE /\ TypeOf(P, parent) = "MemberExpression"
           /\ IsChildAt(P, ref, parent, "object")
           /\ P[parent].name # "computed"
           /\ TypeOf(P, ChildAt(P, parent, "property")) = "Identifier"
           /\ P[ChildAt(P, parent, "property")].name \in NON_CONSUMING_PROPS

(* Variant that knows the method pattern only. *)
isConsumingReferenceMethodOnly(P, ref) ==
  LET parent == parentOf(P, ref)
  IN  /\ TypeOf(P, parent) = "MemberExpression"
      /\ IsChildAt(P, ref, parent, "object")
      /\ P[parent].name # "computed"
      /\ P[ChildAt(P, parent, "property")].name
           \in ARRAY_RETURNING_METHODS \cup CONSUMING_TERMINAL_METHODS
      /\ TypeOf(P, parentOf(P, parent)) = "CallExpression"
      /\ IsChildAt(P, parent, parentOf(P, parent), "callee")

isConsumingReference(P, ref) ==
  LET parent == parentOf(P, ref)
      gp     == parentOf(P, parent)
  IN  IF parent = 0 THEN FALSE
      ELSE IF /\ TypeOf(P, parent) = "MemberExpression"
              /\ IsChildAt(P, ref, parent, "object")
              /\ P[parent].name # "computed"
              /\ TypeOf(P, ChildAt(P, parent, "property")) = "Identifier"
           THEN IF P[ChildAt(P, parent, "property")].name
                     \notin ARRAY_RETURNING_METHODS \cup CONSUMING_TERMINAL_METHODS
                THEN FALSE
                ELSE TypeOf(P, gp) = "CallExpression" /\ IsChildAt(P, parent, gp, "callee")
      ELSE TypeOf(P, parent) = "CallExpression" /\ IsChildAt(P, ref, parent, "arguments")

(* A read followed by the keep-alive accessor. *)
isKeepAliveReference(P, ref) ==
  LET parent == parentOf(P, ref)
  IN  /\ TypeOf(P, parent) = "MemberExpression"
      /\ IsChildAt(P, ref, parent, "object")
      /\ P[parent].name # "computed"
      /\ P[ChildAt(P, parent, "property")].name = "ref"

(* The binding never reaches a consuming read, a keep-alive read or a write
   before the end of its scope. *)
neverReleased(P, d) ==
  \A r \in {References(P, d)[i] : i \in 1..Len(References(P, d))} :
    /\ ~isWrite(P, r)
    /\ ~isKeepAliveReference(P, r)
    /\ ~isConsumingReference(P, r)

LeakReport(P, d) == [node |-> d, name |-> P[ChildAt(P, d, "id")].name]

(* The check runs once per declarator, on tracked bindings only. *)
RequireConsume(d) ==
  /\ d \in Declarators(prog.nodes) \ seen
  /\ seen' = seen \cup {d}
  /\ LET P == prog.nodes
     IN  leakReports' =
           IF /\ TypeOf(P, ChildAt(P, d, "id")) = "Identifier"
              /\ isArrayInit(P, ChildAt(P, d, "init"))
              /\ neverReleased(P, d)
           THEN Append(leakReports, LeakReport(P, d))
           ELSE leakReports
  /\ UNCHANGED <<prog, passVars, refReports, refLog, refFix>>

(* Files linted with require-consume: one or two declarations and uses. *)
LeakAtoms ==
  {ExprStmt(e) : e \in {UseProp, UseMethod, UseArg, UseDispose, RefChain(X), WriteFresh,
                        Member(Z, "shape"), Call(Member(Z, "add"), <<One>>)}}
LeakFiles ==
  {File(<<DeclX(NpZeros), VarDecl("let", Declarator(Id("z", "w"), init))>> \o b,
        PlainLines(Len(b) + 2)) :
     init \in {NpZeros, Lit("5")}, b \in SeqsUpTo(LeakAtoms, MaxRefStmts)}

LeakInit ==
  /\ prog \in LeakFiles
  /\ pc = "idle"
  /\ node = 0
  /\ varName = ""
  /\ variable = 0
  /\ refs = <<>>
  /\ idx = 0
  /\ consumedBy = NoSite
  /\ consumedInIf = 0
  /\ consumedInConditional = 0
  /\ consumedInLoop = 0
  /\ reports = <<>>
  /\ log = <<>>
  /\ applied = NoReport
  /\ fixedProg = <<>>
  /\ fixedReports = <<>>
  /\ finished = <<>>
  /\ seen = {}
  /\ refReports = <<>>
  /\ refLog = <<>>
  /\ refFix = NoEdit
  /\ leakReports = <<>>

LeakNext == \E d \in Declarators(prog.nodes) : RequireConsume(d)

LeakSpec == LeakInit /\ [][LeakNext]_vars

(***************************************************************************)
(* Properties.  They are stated over the log of processed references and   *)
(* the reports, with the tree read by source ranges rather than by the     *)
(* rule's own ancestor walks.                                              *)
(***************************************************************************)
Tree == prog.nodes

(* The pass state after the k-th processed reference. *)
After(k) == IF k < Len(log) THEN log[k + 1].before ELSE Current

(* Node n lies in the source range of node a. *)
Inside(T, n, a) == a # 0 /\ a <= n /\ n < a + T[a].size

ReportsOf(ref) == {i \in 1..Len(reports) : reports[i].node = ref}
LogIndex(ref) == CHOOSE k \in 1..Len(log) : log[k].ref = ref
LastWriteBefore(k) ==
  LET W == {w \in 1..(k - 1) : isWrite(Tree, log[w].ref)}
  IN  IF W = {} THEN 0 ELSE CHOOSE w \in W : \A v \in W : v <= w

IsDirectArgument(T, n) ==
  TypeOf(T, parentOf(T, n)) = "CallExpression" /\ T[n].slot = "arguments"
CalleeOfArgument(T, n) == ChildAt(T, parentOf(T, n), "callee")
AllowListed(T, callee) ==
  \/ T[callee].type = "Identifier" /\ T[callee].name \in SAFE_CALLEE_NAMES
  \/ /\ T[callee].type = "MemberExpression"
     /\ T[ChildAt(T, callee, "object")].type = "Identifier"
     /\ T[ChildAt(T, callee, "object")].name \in SAFE_CALLEE_OBJECTS

(* The call a site belongs to, and the three exceptions to reporting. *)
SiteCall(T, site) ==
  IF site.kind = "method" THEN parentOf(T, parentOf(T, site.identifier))
  ELSE parentOf(T, site.identifier)
InArgumentsOfSiteCall(T, ref, site) ==
  \E a \in ChildrenAt(T, SiteCall(T, site), "arguments") : Inside(T, ref, a)
OppositeBranches(T, a, b) ==
  \E n \in 1..Len(T) :
    /\ T[n].type \in {"IfStatement", "ConditionalExpression"}
    /\ \/ Inside(T, a, ChildAt(T, n, "consequent")) /\ Inside(T, b, ChildAt(T, n, "alternate"))
       \/ Inside(T, b, ChildAt(T, n, "consequent")) /\ Inside(T, a, ChildAt(T, n, "alternate"))
ResetApplies(T, st, ref) ==
  \E tag \in {st.consumedInIf, st.consumedInConditional, st.consumedInLoop} :
    tag # 0 /\ ref >= tag + T[tag].size

(* A read reached with an active site and none of the exceptions. *)
PlainReadAfterConsume(k) ==
  LET ref == log[k].ref
      st  == log[k].before
  IN  /\ isRead(Tree, ref) /\ ~isWrite(Tree, ref)
      /\ st.consumedBy # NoSite
      /\ ~ResetApplies(Tree, st, ref)
      /\ ~InArgumentsOfSiteCall(Tree, ref, st.consumedBy)
      /\ ~OppositeBranches(Tree, ref, st.consumedBy.identifier)

(* C1: a read processed while a site is active, with no dominance reset,
   evaluation-order exception or mutual exclusion, is reported exactly once,
   blaming the active site, whatever the read's own kind; the suggested edit
   inserts ".ref" right after the identifier of the blamed site. *)
C1_ReportedOnce ==
  \A k \in 1..Len(log) :
    PlainReadAfterConsume(k) =>
      LET ref  == log[k].ref
          site == log[k].before.consumedBy
      IN  /\ Cardinality(ReportsOf(ref)) = 1
          /\ \A i \in ReportsOf(ref) :
               /\ reports[i].site = site.identifier
               /\ reports[i].consumedBy = site.description
               /\ reports[i].name = varName
               /\ reports[i].fixAfter = site.identifier
               /\ reports[i].fixText = ".ref"
               /\ Tree[reports[i].fixAfter].type = "Identifier"
               /\ Tree[reports[i].fixAfter].name = varName
          /\ After(k) = log[k].before

(* C1 case: a reported read that is itself an argument of an allow-listed
   callee, and a reported read that is itself a consuming use. *)
C1_Witness ==
  /\ \E k \in 1..Len(log) :
       /\ PlainReadAfterConsume(k)
       /\ IsDirectArgument(Tree, log[k].ref)
       /\ AllowListed(Tree, CalleeOfArgument(Tree, log[k].ref))
       /\ ReportsOf(log[k].ref) # {}
  /\ \E k \in 1..Len(log) :
       /\ PlainReadAfterConsume(k)
       /\ getConsumingSite(Tree, log[k].ref) # NoSite
       /\ ReportsOf(log[k].ref) # {}

(* C2: a write clears the site and all three tags wherever it lies, and every
   report blames a consuming read processed after the last write before it. *)
C2_WriteClears ==
  /\ \A k \in 1..Len(log) :
       isWrite(Tree, log[k].ref) => After(k) = PassState(NoSite, 0, 0, 0)
  /\ \A i \in 1..Len(reports) :
       LET k == LogIndex(reports[i].node)
       IN  \E j \in (LastWriteBefore(k) + 1)..(k - 1) :
             /\ ~isWrite(Tree, log[j].ref)
             /\ log[j].ref = reports[i].site
             /\ getConsumingSite(Tree, log[j].ref) # NoSite

(* C2 case: a write processed while a site and a tag are active, followed by
   a read that is not reported. *)
C2_Witness ==
  \E k \in 1..(Len(log) - 1) :
    /\ isWrite(Tree, log[k].ref)
    /\ log[k].before.consumedBy # NoSite
    /\ log[k].before.consumedInLoop # 0 \/ log[k].before.consumedInIf # 0
         \/ log[k].before.consumedInConditional # 0
    /\ ~isWrite(Tree, log[k + 1].ref)
    /\ ReportsOf(log[k + 1].ref) = {}

(* The initializer shapes recognised as producers. *)
RECURSIVE ProducerShape(_, _)
ProducerShape(T, e) ==
  IF e = 0 THEN FALSE
  ELSE IF T[e].type \in {"ParenthesizedExpression", "TSAsExpression", "TSNonNullExpression",
                         "TSSatisfiesExpression", "TSTypeAssertion"}
       THEN ProducerShape(T, ChildAt(T, e, "expression"))
  ELSE IF T[e].type = "AwaitExpression" THEN ProducerShape(T, ChildAt(T, e, "argument"))
  ELSE IF T[e].type = "CallExpression"
       THEN LET c == ChildAt(T, e, "callee")
            IN  \/ T[c].type = "Identifier" /\ T[c].name \in ARRAY_FACTORY_NAMES
                \/ /\ T[c].type = "MemberExpression" /\ T[c].name # "computed"
                   /\ T[ChildAt(T, c, "property")].type = "Identifier"
                   /\ T[ChildAt(T, c, "property")].name
                        \in ARRAY_FACTORY_NAMES \cup UNAMBIGUOUS_ARRAY_METHODS
  ELSE IF T[e].type = "MemberExpression"
       THEN /\ T[e].name # "computed"
            /\ T[ChildAt(T, e, "property")].type = "Identifier"
            /\ T[ChildAt(T, e, "property")].name = "ref"
  ELSE FALSE

(* C3: a binding whose initializer is not a recognised producer is never
   analysed: the handler returns at once with no reference processed and no
   violation. *)
C3_NotAnalysed ==
  (pc # "idle" /\ ~ProducerShape(Tree, ChildAt(Tree, node, "init")))
    => /\ pc = "done"
       /\ refs = <<>>
       /\ log = <<>>
       /\ reports = <<>>
       /\ Current = Cleared

(* C3 case: the handler returned for a binding initialised by an unrecognised
   call and used twice, the first use a consuming one. *)
C3_Witness ==
  /\ pc = "done"
  /\ node # 0
  /\ TypeOf(Tree, ChildAt(Tree, node, "init")) = "CallExpression"
  /\ ~ProducerShape(Tree, ChildAt(Tree, node, "init"))
  /\ \E a, b \in 1..Len(Tree) :
       /\ a < b
       /\ Tree[a].rw = "r" /\ Tree[b].rw = "r"
       /\ Tree[a].name = "x" /\ Tree[b].name = "x"
       /\ getConsumingSite(Tree, a) # NoSite

(* A function strictly inside the declaring scope lies between the
   declaration and the reference. *)
CrossesClosure(T, ref) ==
  \E f \in 1..Len(T) :
    /\ f > variable
    /\ T[f].type \in {"ArrowFunctionExpression", "FunctionExpression", "FunctionDeclaration"}
    /\ Inside(T, ref, f)

(* No site is active when the k-th reference is examined. *)
NoActiveConsumer(k) ==
  log[k].before.consumedBy = NoSite \/ ResetApplies(Tree, log[k].before, log[k].ref)

(* A read passed directly as an argument of a call whose callee is neither
   super nor allow-listed. *)
ArgumentPass(T, n) ==
  /\ T[n].rw = "r"
  /\ IsDirectArgument(T, n)
  /\ T[CalleeOfArgument(T, n)].type # "Super"
  /\ ~AllowListed(T, CalleeOfArgument(T, n))

(* The reference lies in the right-hand side of an assignment to `name`. *)
InReassignRhs(T, ref, name) ==
  \E a \in 1..Len(T) :
    /\ T[a].type = "AssignmentExpression"
    /\ T[ChildAt(T, a, "left")].type = "Identifier"
    /\ T[ChildAt(T, a, "left")].name = name
    /\ Inside(T, ref, ChildAt(T, a, "right"))

(* The line is a comment carrying the directive, and the call of an argument
   starts on such a line or on the line below one. *)
DirectiveOn(lineText) ==
  \E i, j \in 1..Len(lineText) :
    i < j /\ lineText[i] \in {"//", "/*"} /\ lineText[j] = "@jax-borrow"
BorrowLine(T, lines, n) ==
  \E ln \in {T[parentOf(T, n)].line - 1, T[parentOf(T, n)].line} :
    ln \in 1..Len(lines) /\ DirectiveOn(lines[ln])

ArgumentKindAsClaimed ==
  \A k \in 1..Len(log) :
    (Tree[log[k].ref].rw = "r" /\ IsDirectArgument(Tree, log[k].ref)) =>
      (ArgumentPass(Tree, log[k].ref)
         <=> getConsumingSite(Tree, log[k].ref).kind = "argument")

(* C4 as stated: a read passed directly as an argument of any call is an
   argument-pass site unless the callee is super or allow-listed (a callee is
   no argument); processed with no active consumer and outside any closure,
   it becomes the active site. *)
C4_ArgumentBecomesSite ==
  /\ ArgumentKindAsClaimed
  /\ \A k \in 1..Len(log) :
       (ArgumentPass(Tree, log[k].ref) /\ NoActiveConsumer(k)
          /\ ~CrossesClosure(Tree, log[k].ref))
         => /\ After(k).consumedBy.identifier = log[k].ref
            /\ After(k).consumedBy.kind = "argument"

(* C4 amended: the same, for an argument pass that is neither in the
   right-hand side of an assignment back to the binding nor on a line the
   borrow directive covers. *)
C4_ArgumentBecomesSiteUnlessExempt ==
  /\ ArgumentKindAsClaimed
  /\ \A k \in 1..Len(log) :
       (ArgumentPass(Tree, log[k].ref) /\ NoActiveConsumer(k)
          /\ ~CrossesClosure(Tree, log[k].ref)
          /\ ~InReassignRhs(Tree, log[k].ref, varName)
          /\ ~BorrowLine(Tree, prog.lines, log[k].ref))
         => /\ After(k).consumedBy.identifier = log[k].ref
            /\ After(k).consumedBy.kind = "argument"
            /\ After(k).consumedBy.description = describeCallee(Tree, CalleeOfArgument(Tree, log[k].ref))

(* C4 case: an argument of a bare user function became the active site and a
   later read was reported against it. *)
C4_Witness ==
  \E k \in 1..Len(log) :
    /\ ArgumentPass(Tree, log[k].ref)
    /\ NoActiveConsumer(k)
    /\ Tree[CalleeOfArgument(Tree, log[k].ref)].type = "Identifier"
    /\ After(k).consumedBy.identifier = log[k].ref
    /\ \E i \in 1..Len(reports) : reports[i].site = log[k].ref

(* A read of the binding that only accesses a property: a non-consuming
   getter or method, the keep-alive accessor, or a consuming method name that
   is not invoked. *)
ConsumingMethodNames == ARRAY_RETURNING_METHODS \cup CONSUMING_TERMINAL_METHODS
PropertyOnlyRead(T, n) ==
  LET m == parentOf(T, n)
  IN  /\ T[n].rw = "r"
      /\ TypeOf(T, m) = "MemberExpression"
      /\ T[n].slot = "object"
      /\ T[m].name # "computed"
      /\ \/ T[ChildAt(T, m, "property")].name
              \in EXTRACTED_GETTERS \cup {"ref", "toString", "blockUntilReady"}
         \/ /\ T[ChildAt(T, m, "property")].name \in ConsumingMethodNames
            /\ ~(TypeOf(T, parentOf(T, m)) = "CallExpression" /\ T[m].slot = "callee")

(* C5: a property-only read never becomes the active site. *)
C5_PropertyReadNeverSite ==
  \A k \in 1..Len(log) :
    PropertyOnlyRead(Tree, log[k].ref) =>
      /\ After(k).consumedBy.identifier # log[k].ref
      /\ \A i \in 1..Len(reports) : reports[i].site # log[k].ref

(* C5 case: x.ref.add(1), an uninvoked x.add and an invoked x.toString()
   were each processed and a later read went unreported. *)
C5_Witness ==
  \E k \in 1..(Len(log) - 1) :
    /\ PropertyOnlyRead(Tree, log[k].ref)
    /\ Tree[ChildAt(Tree, parentOf(Tree, log[k].ref), "property")].name
         \in ConsumingMethodNames \cup {"ref", "toString"}
    /\ log[k].before.consumedBy = NoSite
    /\ ~isWrite(Tree, log[k + 1].ref)
    /\ reports = <<>>

(* C6: a direct argument of an allow-listed callee never sets the active
   site, and no report blames such a call. *)
C6_SafeCalleeNeverSite ==
  \A k \in 1..Len(log) :
    (IsDirectArgument(Tree, log[k].ref)
       /\ AllowListed(Tree, CalleeOfArgument(Tree, log[k].ref)))
      => /\ After(k).consumedBy.identifier # log[k].ref
         /\ \A i \in 1..Len(reports) : reports[i].site # log[k].ref

(* C6 case: the binding went to a method of an allow-listed object and a
   later read was processed without a report. *)
C6_Witness ==
  \E k \in 1..(Len(log) - 1) :
    /\ IsDirectArgument(Tree, log[k].ref)
    /\ Tree[CalleeOfArgument(Tree, log[k].ref)].type = "MemberExpression"
    /\ AllowListed(Tree, CalleeOfArgument(Tree, log[k].ref))
    /\ ~isWrite(Tree, log[k + 1].ref)
    /\ reports = <<>>

(* C7 as stated: an argument pass whose call starts on a line carrying the
   borrow directive, or on the line below one, never becomes the active site,
   in any state of the pass. *)
C7_BorrowedNeverSite ==
  \A k \in 1..Len(log) :
    (Tree[log[k].ref].rw = "r" /\ IsDirectArgument(Tree, log[k].ref)
       /\ BorrowLine(Tree, prog.lines, log[k].ref))
      => After(k).consumedBy.identifier # log[k].ref

(* C8: a consuming read inside the right-hand side of an assignment back to
   the binding never becomes the active site, and no report blames it. *)
C8_ReassignNeverSite ==
  \A k \in 1..Len(log) :
    (Tree[log[k].ref].rw = "r" /\ InReassignRhs(Tree, log[k].ref, varName))
      => /\ After(k).consumedBy.identifier # log[k].ref
         /\ \A i \in 1..Len(reports) : reports[i].site # log[k].ref

(* C8 case: x = f(x) or x = x.add(1) was processed, in a loop body too, and
   the next read of the binding went unreported. *)
C8_Witness ==
  \E k \in 1..(Len(log) - 1) :
    /\ Tree[log[k].ref].rw = "r"
    /\ InReassignRhs(Tree, log[k].ref, varName)
    /\ getConsumingSite(Tree, log[k].ref) # NoSite
    /\ \E w \in 1..Len(Tree) : Tree[w].type = "WhileStatement" /\ Inside(Tree, log[k].ref, w)
    /\ ~isWrite(Tree, log[k + 1].ref)
    /\ ReportsOf(log[k + 1].ref) = {}

(* What the k-th iteration does when no consumer is active. *)
AsIfNoConsumer(k) ==
  ProcessRef(Tree, prog.lines, variable, varName, PassState(NoSite, 0, 0, 0), log[k].ref).st
NotBlamed(k) ==
  \A i \in ReportsOf(log[k].ref) : reports[i].site # log[k].before.consumedBy.identifier

(* The site lies in a branch of an if statement that terminates, and the
   reference starts at or after the end of that statement. *)
PastTerminatingIf(T, site, ref) ==
  \E n \in 1..Len(T) :
    /\ T[n].type = "IfStatement"
    /\ ref >= n + T[n].size
    /\ \E b \in {ChildAt(T, n, "consequent"), ChildAt(T, n, "alternate")} :
         Inside(T, site, b) /\ blockTerminates(T, b)

(* C9 as stated: with the active site in a terminating branch of an if, a
   reference at or after the end of that if is not reported against the site;
   the state is cleared and the reference re-evaluated. *)
C9_TerminatingIfClears ==
  \A k \in 1..Len(log) :
    (log[k].before.consumedBy # NoSite
       /\ PastTerminatingIf(Tree, log[k].before.consumedBy.identifier, log[k].ref))
      => NotBlamed(k) /\ After(k) = AsIfNoConsumer(k)

(* The site lies in a branch of a ternary or in the right operand of a
   logical expression, and the reference starts at or after its end. *)
PastConditional(T, site, ref) ==
  \E n \in 1..Len(T) :
    /\ ref >= n + T[n].size
    /\ \/ /\ T[n].type = "ConditionalExpression"
          /\ \/ Inside(T, site, ChildAt(T, n, "consequent"))
             \/ Inside(T, site, ChildAt(T, n, "alternate"))
       \/ /\ T[n].type = "LogicalExpression"
          /\ T[n].name \in {"&&", "||", "??"}
          /\ Inside(T, site, ChildAt(T, n, "right"))

(* C10 as stated: with the active site in a ternary branch or a logical
   right operand, a reference at or after the end of that expression is not
   reported against the site; the state is cleared and the reference
   re-evaluated. *)
C10_ConditionalClears ==
  \A k \in 1..Len(log) :
    (log[k].before.consumedBy # NoSite
       /\ PastConditional(Tree, log[k].before.consumedBy.identifier, log[k].ref))
      => NotBlamed(k) /\ After(k) = AsIfNoConsumer(k)

(* C10 amended: the same, for a site that became active while no consumer
   was active, that is, not by promotion from the opposite branch of a
   conditional both of whose branches consume. *)
C10_ConditionalClearsUnlessPromoted ==
  \A k \in 1..Len(log) :
    (log[k].before.consumedBy # NoSite
       /\ PastConditional(Tree, log[k].before.consumedBy.identifier, log[k].ref)
       /\ NoActiveConsumer(LogIndex(log[k].before.consumedBy.identifier)))
      => NotBlamed(k) /\ After(k) = AsIfNoConsumer(k)

(* C10 case: a read after a logical expression whose right operand holds the
   active site, and a read after a ternary one of whose branches holds it. *)
C10_Witness ==
  \E k \in 1..Len(log) :
    /\ log[k].before.consumedBy # NoSite
    /\ PastConditional(Tree, log[k].before.consumedBy.identifier, log[k].ref)
    /\ NoActiveConsumer(LogIndex(log[k].before.consumedBy.identifier))
    /\ log[k].before.consumedInConditional # 0
    /\ Tree[log[k].before.consumedInConditional].type = "LogicalExpression"
    /\ isRead(Tree, log[k].ref)
    /\ ReportsOf(log[k].ref) = {}

(* The site lies in the body of a loop and the reference starts at or after
   the end of that loop. *)
LoopStatementTypes ==
  {"ForStatement", "WhileStatement", "DoWhileStatement", "ForOfStatement", "ForInStatement"}
InLoopBody(T, n, loop) ==
  T[loop].type \in LoopStatementTypes /\ Inside(T, n, ChildAt(T, loop, "body"))
PastLoop(T, site, ref) ==
  \E n \in 1..Len(T) : InLoopBody(T, site, n) /\ ref >= n + T[n].size

(* C11 as stated: with the active site in the body of a loop, a reference at
   or after the end of that loop is not reported against the site. *)
C11_LoopClears ==
  \A k \in 1..Len(log) :
    (log[k].before.consumedBy # NoSite
       /\ PastLoop(Tree, log[k].before.consumedBy.identifier, log[k].ref))
      => NotBlamed(k)

(* A read that follows the active site inside the body of the loop that holds
   the site. *)
ReadInLoopAfterConsume(k) ==
  /\ PlainReadAfterConsume(k)
  /\ \E n \in 1..Len(Tree) :
       /\ InLoopBody(Tree, log[k].before.consumedBy.identifier, n)
       /\ InLoopBody(Tree, log[k].ref, n)
       /\ log[k].before.consumedBy.identifier < log[k].ref

(* C12: a read that follows the active site inside the same loop body is
   reported exactly once, and the report stays whatever is processed after
   it, a write to the binding later in the loop body included. *)
C12_LoopBodyReadReported ==
  \A k \in 1..Len(log) :
    ReadInLoopAfterConsume(k) =>
      /\ Cardinality(ReportsOf(log[k].ref)) = 1
      /\ \A i \in ReportsOf(log[k].ref) :
           reports[i].site = log[k].before.consumedBy.identifier

(* C12 case: the pass is over, a read in a loop body was reported and a write
   to the binding follows that read inside the same loop body. *)
C12_Witness ==
  /\ pc = "done"
  /\ \E k \in 1..Len(log) : \E j \in (k + 1)..Len(log) : \E n \in 1..Len(Tree) :
       /\ ReadInLoopAfterConsume(k)
       /\ ReportsOf(log[k].ref) # {}
       /\ isWrite(Tree, log[j].ref)
       /\ InLoopBody(Tree, log[k].ref, n)
       /\ InLoopBody(Tree, log[j].ref, n)

(* A read that consumes by its shape: a direct argument of a call that is
   not allow-listed, or the receiver of an invoked consuming method. *)
InvokedConsumingMethod(T, n) ==
  LET m == parentOf(T, n)
  IN  /\ T[n].rw = "r"
      /\ TypeOf(T, m) = "MemberExpression"
      /\ T[n].slot = "object"
      /\ T[m].name # "computed"
      /\ T[ChildAt(T, m, "property")].name \in ConsumingMethodNames
      /\ TypeOf(T, parentOf(T, m)) = "CallExpression"
      /\ T[m].slot = "callee"
ConsumingRead(T, n) == ArgumentPass(T, n) \/ InvokedConsumingMethod(T, n)

(* The conditionals (if statements and ternaries) that hold a and b in
   opposite branches, at any depth. *)
OppositeAt(T, a, b) ==
  {n \in 1..Len(T) :
     /\ T[n].type \in {"IfStatement", "ConditionalExpression"}
     /\ \/ Inside(T, a, ChildAt(T, n, "consequent")) /\ Inside(T, b, ChildAt(T, n, "alternate"))
        \/ Inside(T, b, ChildAt(T, n, "consequent")) /\ Inside(T, a, ChildAt(T, n, "alternate"))}

(* No function, further ternary branch or short-circuit right operand lies
   between x and the ternary n that holds it. *)
DirectlyIn(T, x, n) ==
  ~ \E m \in (n + 1)..(x - 1) :
      /\ Inside(T, x, m)
      /\ \/ T[m].type \in {"ArrowFunctionExpression", "FunctionExpression", "FunctionDeclaration"}
         \/ /\ T[m].type = "ConditionalExpression"
            /\ \/ Inside(T, x, ChildAt(T, m, "consequent"))
               \/ Inside(T, x, ChildAt(T, m, "alternate"))
         \/ /\ T[m].type = "LogicalExpression"
            /\ Inside(T, x, ChildAt(T, m, "right"))

(* Opposite branches of an if statement at any depth, or of a ternary that is
   the nearest conditional of both. *)
RecognisedAt(T, a, b) ==
  {n \in OppositeAt(T, a, b) :
     T[n].type = "ConditionalExpression" => DirectlyIn(T, a, n) /\ DirectlyIn(T, b, n)}

(* The k-th reference is a consuming read in the branch opposite to the
   active site's, and the (k+1)-th is a plain read after that conditional. *)
ReadAfterBoth(k, n) ==
  /\ k < Len(log)
  /\ isRead(Tree, log[k + 1].ref) /\ ~isWrite(Tree, log[k + 1].ref)
  /\ log[k + 1].ref >= n + Tree[n].size

ReportedOnceBlaming(ref, site) ==
  /\ Cardinality(ReportsOf(ref)) = 1
  /\ \A i \in ReportsOf(ref) : reports[i].site = site

(* C13 as stated: a consuming read processed while the active site lies in
   the opposite branch of the same ternary or if/else is not reported, becomes
   the active site with the conditional tag dropped, and a read after the
   conditional is reported exactly once, blaming it. *)
C13_BothBranchesConsume ==
  \A k \in 1..Len(log) :
    LET ref  == log[k].ref
        site == log[k].before.consumedBy
    IN  (ConsumingRead(Tree, ref) /\ site # NoSite) =>
          \A n \in OppositeAt(Tree, ref, site.identifier) :
            /\ ReportsOf(ref) = {}
            /\ After(k).consumedBy.identifier = ref
            /\ After(k).consumedInConditional = 0
            /\ ReadAfterBoth(k, n) =>
                 ReportedOnceBlaming(log[k + 1].ref, ref)

(* C13 amended: the exclusion is the one the rule recognises (an if statement
   at any depth, a ternary only as the nearest conditional of both), the
   consuming read crosses no closure and carries no borrow directive, no
   reset or evaluation-order exception applies to it; the read after the
   conditional is reported unless the new site lies in a terminating if
   branch or a loop body that ends before that read, or the read lies in a
   branch opposite to the new site's. *)
C13_PromotionThenReport ==
  \A k \in 1..Len(log) :
    LET ref  == log[k].ref
        st   == log[k].before
        site == st.consumedBy
    IN  (/\ ConsumingRead(Tree, ref)
         /\ ~CrossesClosure(Tree, ref)
         /\ ~(ArgumentPass(Tree, ref) /\ BorrowLine(Tree, prog.lines, ref))
         /\ site # NoSite
         /\ ~ResetApplies(Tree, st, ref)
         /\ ~InArgumentsOfSiteCall(Tree, ref, site)) =>
          \A n \in RecognisedAt(Tree, ref, site.identifier) :
            /\ ReportsOf(ref) = {}
            /\ After(k).consumedBy.identifier = ref
            /\ After(k).consumedInConditional = 0
            /\ (/\ ReadAfterBoth(k, n)
                /\ ~PastTerminatingIf(Tree, ref, log[k + 1].ref)
                /\ ~PastLoop(Tree, ref, log[k + 1].ref)
                /\ OppositeAt(Tree, log[k + 1].ref, ref) = {}) =>
                 ReportedOnceBlaming(log[k + 1].ref, ref)

(* C13 case: both branches of a ternary, and of an if/else, consume, and the
   read after the conditional has been reported against the later branch. *)
C13_Witness ==
  \E k \in 1..Len(log) : \E n \in RecognisedAt(Tree, log[k].ref, log[k].before.consumedBy.identifier) :
    /\ ConsumingRead(Tree, log[k].ref)
    /\ log[k].before.consumedBy # NoSite
    /\ Tree[n].type = "ConditionalExpression"
    /\ ReadAfterBoth(k, n)
    /\ ReportedOnceBlaming(log[k + 1].ref, log[k].ref)

(* C14 as stated: a read in the branch opposite to the active site's, of the
   same ternary or if statement and at any depth inside the branches, is
   never reported. *)
C14_OppositeBranchNeverReported ==
  \A k \in 1..Len(log) :
    (/\ isRead(Tree, log[k].ref)
     /\ log[k].before.consumedBy # NoSite
     /\ OppositeBranches(Tree, log[k].ref, log[k].before.consumedBy.identifier))
      => ReportsOf(log[k].ref) = {}

(* The k-th reference is a read inside the argument list of the call the
   active site belongs to. *)
ReadInSiteArguments(k) ==
  /\ isRead(Tree, log[k].ref) /\ ~isWrite(Tree, log[k].ref)
  /\ log[k].before.consumedBy # NoSite
  /\ InArgumentsOfSiteCall(Tree, log[k].ref, log[k].before.consumedBy)

(* C15: a read anywhere inside the argument list of the call of the active
   site is not reported and leaves the active site and the tags as they
   were, whatever its own kind; a read that follows it with none of the
   exceptions applying is reported exactly once, blaming the original site. *)
C15_SameCallArgumentSkipped ==
  \A k \in 1..Len(log) :
    ReadInSiteArguments(k) =>
      /\ ReportsOf(log[k].ref) = {}
      /\ After(k) = log[k].before
      /\ (k < Len(log) /\ PlainReadAfterConsume(k + 1)) =>
           ReportedOnceBlaming(log[k + 1].ref, log[k].before.consumedBy.identifier)

(* C15 case: a consuming read nested below the argument list of the site's
   call was skipped, and the read after the call was reported against the
   original site. *)
C15_Witness ==
  \E k \in 1..(Len(log) - 1) :
    /\ ReadInSiteArguments(k)
    /\ ~IsDirectArgument(Tree, log[k].ref)
    /\ getConsumingSite(Tree, log[k].ref) # NoSite
    /\ PlainReadAfterConsume(k + 1)
    /\ log[k + 1].ref >= SiteCall(Tree, log[k].before.consumedBy)
                           + Tree[SiteCall(Tree, log[k].before.consumedBy)].size
    /\ ReportedOnceBlaming(log[k + 1].ref, log[k].before.consumedBy.identifier)

(* C16 as stated: the active consuming site is never a reference that a
   function boundary separates from the declaring scope of the binding. *)
C16_ClosureNeverSite ==
  consumedBy # NoSite => ~CrossesClosure(Tree, consumedBy.identifier)

(* C17 as stated: no report has a closure reference as its offending
   reference, whatever the state in which the reference is processed. *)
C17_ClosureNeverReported ==
  \A i \in 1..Len(reports) : ~CrossesClosure(Tree, reports[i].node)

(* C18 as stated: once the suggestion of a report has been applied and the
   file linted again, the binding has no violation left. *)
C18_FixLeavesNoViolation ==
  pc = "fixed" => fixedReports = <<>>

(* C18 amended: after the edit no violation blames the edited site, and
   none is left at all when no other reference of the binding is a consuming
   read. *)
C18_FixRemovesBlamedSite ==
  pc = "fixed" =>
    /\ \A j \in 1..Len(fixedReports) :
         fixedReports[j].site # MovedBy(applied.fixAfter, applied.site)
    /\ (\A j \in 1..Len(refs) : refs[j] # applied.site => ~ConsumingRead(Tree, refs[j]))
         => fixedReports = <<>>

(* C18 case: the edit was applied to a file with two violations against the
   one consuming read of the binding, and linting the edited file reports
   nothing. *)
C18_Witness ==
  /\ pc = "fixed"
  /\ Len(reports) = 2
  /\ \A j \in 1..Len(refs) : refs[j] # applied.site => ~ConsumingRead(Tree, refs[j])
  /\ TypeOf(fixedProg, parentOf(fixedProg, MovedBy(applied.fixAfter, applied.site)))
       = "MemberExpression"
  /\ fixedReports = <<>>

(* The positions of the consuming reads in the reference list. *)
ConsumingReads == {j \in 1..Len(refs) : ConsumingRead(Tree, refs[j])}

(* C19: a binding whose reference list holds exactly one consuming read,
   with no reference after it, has no report at any point of the pass. *)
C19_SingleLastConsumeSilent ==
  (Cardinality(ConsumingReads) = 1 /\ Len(refs) \in ConsumingReads) => reports = <<>>

(* C19 case: the pass is over for a binding with several references, the
   last one its only consuming read, an allow-listed argument before it. *)
C19_Witness ==
  /\ pc = "done"
  /\ Cardinality(ConsumingReads) = 1 /\ Len(refs) \in ConsumingReads
  /\ Len(log) = Len(refs)
  /\ \E j \in 1..(Len(refs) - 1) :
       IsDirectArgument(Tree, refs[j]) /\ AllowListed(Tree, CalleeOfArgument(Tree, refs[j]))
  /\ reports = <<>>

(* The reference is the target of a plain assignment whose right-hand side
   does not have the shape of an array producer. *)
NonProducerWrite(T, n) ==
  LET a == parentOf(T, n)
  IN  /\ T[n].rw = "w"
      /\ TypeOf(T, a) = "AssignmentExpression"
      /\ T[a].name = "="
      /\ T[n].slot = "left"
      /\ ~ProducerShape(T, ChildAt(T, a, "right"))

(* C20 as stated: a reference whose latest preceding write reassigned the
   binding to a non-producer value neither becomes the active site nor is
   reported. *)
C20_UntrackedAfterNonProducer ==
  \A k \in 1..Len(log) :
    (LastWriteBefore(k) # 0 /\ NonProducerWrite(Tree, log[LastWriteBefore(k)].ref)
       /\ ~isWrite(Tree, log[k].ref))
      => /\ ReportsOf(log[k].ref) = {}
         /\ After(k).consumedBy.identifier # log[k].ref

(* The node lies in a switch case or in a block of a try statement. *)
InUnsupportedShape(T, n) ==
  \E a \in 1..Len(T) : T[a].type \in {"SwitchCase", "TryStatement"} /\ a # n /\ Inside(T, n, a)

(* C21 as stated: a reference inside a switch case or a try statement never
   is the active consuming site, and no violation blames one. *)
C21_UnsupportedShapeNeverSite ==
  /\ consumedBy # NoSite => ~InUnsupportedShape(Tree, consumedBy.identifier)
  /\ \A i \in 1..Len(reports) : ~InUnsupportedShape(Tree, reports[i].site)

(* C22: whenever no consuming site is active the three tags are null, in
   every state of the pass and before every processed reference. *)
C22_NoSiteNoTags ==
  /\ consumedBy = NoSite =>
       consumedInIf = 0 /\ consumedInConditional = 0 /\ consumedInLoop = 0
  /\ \A k \in 1..Len(log) :
       log[k].before.consumedBy = NoSite => log[k].before = Cleared

(* C22 case: a read that does not consume cleared, by the terminating-if
   reset, a site that also carried a loop tag. *)
C22_Witness ==
  \E k \in 1..Len(log) :
    /\ ~isWrite(Tree, log[k].ref)
    /\ log[k].before.consumedBy # NoSite
    /\ log[k].before.consumedInIf # 0
    /\ log[k].before.consumedInLoop # 0
    /\ log[k].ref >= log[k].before.consumedInIf + Tree[log[k].before.consumedInIf].size
    /\ log[k].ref < log[k].before.consumedInLoop + Tree[log[k].before.consumedInLoop].size
    /\ After(k) = Cleared

(* C23: every handler call starts with no active consumer and null tags,
   and what a call reports depends on the file and its declarator alone:
   whatever calls ran before it, in whatever order, its reports are those of
   the handler run on its own. *)
C23_PassesIndependent ==
  /\ (pc = "loop" /\ idx = 1) => Current = Cleared
  /\ log # <<>> => log[1].before = Cleared
  /\ pc = "done" => reports = Analyze(prog.nodes, prog.lines, node)
  /\ \A i \in 1..Len(finished) :
       finished[i].reports = Analyze(prog.nodes, prog.lines, finished[i].node)

(* C23 case: the previous call returned with a consuming site still active
   and with reports of its own, and the current call, on another array of
   the same file, has finished with reports too. *)
C23_Witness ==
  /\ pc = "done"
  /\ Len(finished) = 1
  /\ finished[1].last.consumedBy # NoSite
  /\ finished[1].reports # <<>>
  /\ reports # <<>>
  /\ \A i \in 1..Len(reports) : reports[i].name # finished[1].reports[1].name

(* C30: a reported reference leaves the active site and the tags as they
   were, also when it is itself a consuming read, and the reports of
   references processed one after the other blame the same site and propose
   the same edit. *)
C30_ReportKeepsSite ==
  \A k \in 1..Len(log) :
    ReportsOf(log[k].ref) # {} =>
      /\ After(k) = log[k].before
      /\ \A i \in ReportsOf(log[k].ref) :
           /\ reports[i].site = log[k].before.consumedBy.identifier
           /\ \A j \in (k + 1)..Len(log) :
                (\A m \in k..j : ReportsOf(log[m].ref) # {}) =>
                  \A i2 \in ReportsOf(log[j].ref) :
                    /\ reports[i2].site = reports[i].site
                    /\ reports[i2].fixAfter = reports[i].fixAfter
                    /\ reports[i2].fixText = reports[i].fixText

(* C30 case: a consuming read was reported and the read after it was
   reported against the same site. *)
C30_Witness ==
  \E k \in 1..(Len(log) - 1) :
    /\ ConsumingRead(Tree, log[k].ref)
    /\ ReportsOf(log[k].ref) # {}
    /\ ReportsOf(log[k + 1].ref) # {}
    /\ \A i \in ReportsOf(log[k + 1].ref) : reports[i].site = log[k].before.consumedBy.identifier


(***************************************************************************)
(* no-unnecessary-ref: properties, read off the tree by names and ranges.  *)
(***************************************************************************)
(* The keep-alive reads of the file: x.ref with x a read of a declared name. *)
DeclarationsOf(T, name) ==
  {n \in 1..Len(T) :
     /\ T[n].type = "Identifier"
     /\ T[n].name = name
     /\ \/ T[n].slot = "params"
        \/ T[n].slot = "id" /\ TypeOf(T, parentOf(T, n)) = "VariableDeclarator"}
KeepAliveReads(T) ==
  {m \in 1..Len(T) :
     /\ T[m].type = "MemberExpression"
     /\ T[m].name # "computed"
     /\ T[m + 1].type = "Identifier"
     /\ T[m + 1].rw = "r"
     /\ T[m + 1 + T[m + 1].size].name = "ref"
     /\ DeclarationsOf(T, T[m + 1].name) # {}}
BindingName(T, m) == T[m + 1].name
ReferencesTo(T, name) ==
  {n \in 1..Len(T) : T[n].type = "Identifier" /\ T[n].rw # "" /\ T[n].name = name}

(* The binding is a parameter of a function expression passed as a call
   argument, or declared in the head of a for-in/for-of statement. *)
BorrowedShape(T, name) ==
  \E d \in DeclarationsOf(T, name) :
    \/ /\ T[d].slot = "params"
       /\ T[parentOf(T, d)].type \in {"ArrowFunctionExpression", "FunctionExpression"}
       /\ T[parentOf(T, d)].slot = "arguments"
       /\ TypeOf(T, parentOf(T, parentOf(T, d))) = "CallExpression"
    \/ \E loop \in 1..Len(T) :
         /\ T[loop].type \in {"ForOfStatement", "ForInStatement"}
         /\ T[d].slot = "id"
         /\ Inside(T, d, ChildAt(T, loop, "left"))

(* A function boundary lies between the declaration and the node. *)
CapturedAcross(T, n, name) ==
  \E f \in 1..Len(T) :
    /\ T[f].type \in {"ArrowFunctionExpression", "FunctionExpression", "FunctionDeclaration"}
    /\ Inside(T, n, f)
    /\ \E d \in DeclarationsOf(T, name) : ~Inside(T, d, f)

(* A read that is the object of a non-computed access to a non-consuming
   property (getter, toString, blockUntilReady). *)
NonConsumingAccess(T, n) ==
  /\ T[n].rw = "r"
  /\ TypeOf(T, parentOf(T, n)) = "MemberExpression"
  /\ T[n].slot = "object"
  /\ T[parentOf(T, n)].name # "computed"
  /\ T[ChildAt(T, parentOf(T, n), "property")].name
       \in EXTRACTED_GETTERS \cup NON_CONSUMING_METHODS

EarlierRefs(T, m) == {n \in ReferencesTo(T, BindingName(T, m)) : n < m + 1}
LaterRefs(T, m) == {n \in ReferencesTo(T, BindingName(T, m)) : n > m + 1}
RefReportsOf(m) == {i \in 1..Len(refReports) : refReports[i].node = m}

NotBorrowedNorCaptured(T, m) ==
  /\ ~BorrowedShape(T, BindingName(T, m))
  /\ ~CapturedAcross(T, m, BindingName(T, m))

(* The report of m is one useless-keep-alive violation with an automatic fix,
   and the fixed file is the linted one without the marker: putting `.ref`
   back after the identifier gives the linted file. *)
UselessKeepAliveReported(m) ==
  /\ Cardinality(RefReportsOf(m)) = 1
  /\ \A i \in RefReportsOf(m) :
       /\ refReports[i].messageId = "unnecessaryRef"
       /\ refReports[i].fix # NoFix
       /\ refReports[i].suggest = <<>>
  /\ (refFix.kind = "fix" /\ refFix.report.node = m) =>
       /\ Len(refFix.output) = Len(Tree) - 2
       /\ refFix.output[m] = [Tree[m + 1] EXCEPT !.slot = Tree[m].slot, !.up = Tree[m].up]
       /\ insertTextAfter(refFix.output, m, ".ref") = Tree

(* C24 as stated: a keep-alive read of a binding that is not borrowed, not
   captured across a closure boundary and has no consuming read before it,
   followed by no reference to the binding, is reported exactly once as a
   useless keep-alive whose automatic fix removes exactly the marker. *)
C24_UselessKeepAliveReported ==
  \A m \in seen \cap KeepAliveReads(Tree) :
    (/\ NotBorrowedNorCaptured(Tree, m)
     /\ \A n \in EarlierRefs(Tree, m) : ~ConsumingRead(Tree, n)
     /\ LaterRefs(Tree, m) = {})
      => UselessKeepAliveReported(m)

(* C24, amended: the same with "not consumed earlier" read as the rule reads
   it: no read of the binding before the marker other than non-consuming
   property accesses. *)
C24_UselessKeepAliveReportedUnlessReadBefore ==
  \A m \in seen \cap KeepAliveReads(Tree) :
    (/\ NotBorrowedNorCaptured(Tree, m)
     /\ \A n \in EarlierRefs(Tree, m) : isRead(Tree, n) => NonConsumingAccess(Tree, n)
     /\ LaterRefs(Tree, m) = {})
      => UselessKeepAliveReported(m)

C24_Witness ==
  \E m \in seen \cap KeepAliveReads(Tree) :
    /\ NotBorrowedNorCaptured(Tree, m)
    /\ \A n \in EarlierRefs(Tree, m) : isRead(Tree, n) => NonConsumingAccess(Tree, n)
    /\ \E n \in EarlierRefs(Tree, m) : isRead(Tree, n)
    /\ LaterRefs(Tree, m) = {}
    /\ TypeOf(Tree, parentOf(Tree, m)) = "MemberExpression"
    /\ refFix.kind = "fix"
    /\ refFix.report.node = m
    /\ insertTextAfter(refFix.output, m, ".ref") = Tree


(* The reads of the binding before the marker are all non-consuming property
   accesses: none of the rule's exemptions applies to the keep-alive read. *)
NonExempt(T, m) ==
  /\ NotBorrowedNorCaptured(T, m)
  /\ \A n \in EarlierRefs(T, m) : isRead(T, n) => NonConsumingAccess(T, n)

LaterReads(T, m) == {n \in LaterRefs(T, m) : isRead(T, n)}
IsKeepAlive(T, n) ==
  /\ T[n].slot = "object"
  /\ TypeOf(T, parentOf(T, n)) = "MemberExpression"
  /\ T[parentOf(T, n)].name # "computed"
  /\ T[ChildAt(T, parentOf(T, n), "property")].name = "ref"

(* The innermost statement of a block that holds node n. *)
BlockStatementsAround(T, n) ==
  {s \in 1..Len(T) : TypeOf(T, parentOf(T, s)) = "BlockStatement" /\ Inside(T, n, s)}
StatementContaining(T, n) ==
  CHOOSE s \in BlockStatementsAround(T, n) : \A o \in BlockStatementsAround(T, n) : o <= s

(* The tree `out` is T with the statement `name.dispose();` added right after
   statement s, in the block of s. *)
DisposeAppended(T, out, s, name) ==
  LET e == s + T[s].size
  IN  /\ Len(out) = Len(T) + 5
      /\ out[e].type = "ExpressionStatement" /\ out[e].size = 5
      /\ out[e].slot = T[s].slot /\ e - out[e].up = parentOf(T, s)
      /\ out[e + 1].type = "CallExpression" /\ out[e + 1].size = 4
      /\ out[e + 2].type = "MemberExpression" /\ out[e + 2].slot = "callee"
      /\ out[e + 2].name # "computed"
      /\ out[e + 3].type = "Identifier" /\ out[e + 3].name = name
      /\ out[e + 3].rw = "r" /\ out[e + 3].slot = "object"
      /\ out[e + 4].type = "Identifier" /\ out[e + 4].name = "dispose"
      /\ out[e + 4].slot = "property"
      /\ \A j \in 1..(e - 1) :
           out[j] = IF Inside(T, s, j) /\ j # s THEN [T[j] EXCEPT !.size = @ + 5] ELSE T[j]
      /\ \A j \in e..Len(T) :
           /\ [out[j + 5] EXCEPT !.up = 0, !.line = 0] = [T[j] EXCEPT !.up = 0, !.line = 0]
           /\ (j + 5) - out[j + 5].up = IF parentOf(T, j) >= e THEN parentOf(T, j) + 5
                                        ELSE parentOf(T, j)

(* The report of m is one keep-alive-needs-release violation without
   automatic fix and with one suggestion, which appends `<name>.dispose();`
   after the end of the statement containing the last later read. *)
NeedsReleaseReported(m) ==
  LET last == CHOOSE n \in LaterReads(Tree, m) : \A o \in LaterReads(Tree, m) : o <= n
      stmt == StatementContaining(Tree, last)
  IN  /\ Cardinality(RefReportsOf(m)) = 1
      /\ \A i \in RefReportsOf(m) :
           /\ refReports[i].messageId = "unnecessaryRefOnlyProps"
           /\ refReports[i].fix = NoFix
           /\ Len(refReports[i].suggest) = 1
           /\ refReports[i].suggest[1].after = stmt
           /\ refReports[i].suggest[1].text =
                <<"\n", BindingName(Tree, m), "dispose", "()", ";">>
      /\ (refFix.kind = "suggestion" /\ refFix.report.node = m) =>
           DisposeAppended(Tree, refFix.output, stmt, BindingName(Tree, m))

OnlyPropertyReadsLater(T, m) ==
  /\ LaterReads(T, m) # {}
  /\ \A n \in LaterReads(T, m) : NonConsumingAccess(T, n) /\ ~IsKeepAlive(T, n)

(* C25 as stated, non-exempt being: not borrowed, not captured across a
   closure boundary, no consuming read before the marker.  Such a keep-alive
   read all of whose later reads are non-consuming property accesses, at
   least one and none a keep-alive read, is reported exactly once as
   keep-alive-needs-release, without automatic fix and with exactly one
   suggestion, which appends `<name>.dispose();` after the end of the
   statement containing the last of those reads. *)
C25_OnlyPropsNeedsRelease ==
  \A m \in seen \cap KeepAliveReads(Tree) :
    (/\ NotBorrowedNorCaptured(Tree, m)
     /\ \A n \in EarlierRefs(Tree, m) : ~ConsumingRead(Tree, n)
     /\ OnlyPropertyReadsLater(Tree, m))
      => NeedsReleaseReported(m)

(* C25, amended: the same for a keep-alive read with no read of the binding
   before it other than non-consuming property accesses. *)
C25_OnlyPropsNeedsReleaseUnlessReadBefore ==
  \A m \in seen \cap KeepAliveReads(Tree) :
    (NonExempt(Tree, m) /\ OnlyPropertyReadsLater(Tree, m)) => NeedsReleaseReported(m)

C25_Witness ==
  \E m \in seen \cap KeepAliveReads(Tree) :
    /\ NonExempt(Tree, m)
    /\ Cardinality(LaterReads(Tree, m)) = 2
    /\ \A n \in LaterReads(Tree, m) : NonConsumingAccess(Tree, n) /\ ~IsKeepAlive(Tree, n)
    /\ \E n \in LaterReads(Tree, m) :
         /\ \A o \in LaterReads(Tree, m) : o <= n
         /\ TypeOf(Tree, StatementContaining(Tree, n)) = "IfStatement"
    /\ refFix.kind = "suggestion"
    /\ refFix.report.node = m
    /\ Len(refFix.output) = Len(Tree) + 5


(* C26: a keep-alive read followed by another keep-alive read of the binding,
   or by any read of it that is not a non-consuming property access, is not
   reported. *)
C26_JustifiedNotReported ==
  \A m \in seen \cap KeepAliveReads(Tree) :
    (\E n \in LaterReads(Tree, m) : IsKeepAlive(Tree, n) \/ ~NonConsumingAccess(Tree, n))
      => RefReportsOf(m) = {}

C26_Witness ==
  \E m \in seen \cap KeepAliveReads(Tree) :
    /\ NonExempt(Tree, m)
    /\ \E n \in LaterReads(Tree, m) : IsKeepAlive(Tree, n)
    /\ \A n \in LaterReads(Tree, m) : NonConsumingAccess(Tree, n)
    /\ seen = RefMembers(Tree)
    /\ RefReportsOf(m) = {}
    /\ Len(refReports) = 1


(* The binding is a parameter of a function declaration, or of a function
   expression that is not an argument of a call. *)
OwnedParameter(T, name) ==
  \E d \in DeclarationsOf(T, name) :
    /\ T[d].slot = "params"
    /\ \/ T[parentOf(T, d)].type = "FunctionDeclaration"
       \/ /\ T[parentOf(T, d)].type \in {"ArrowFunctionExpression", "FunctionExpression"}
          /\ ~(/\ T[parentOf(T, d)].slot = "arguments"
               /\ TypeOf(T, parentOf(T, parentOf(T, d))) = "CallExpression")

(* C27: a keep-alive read of a borrowed binding (a parameter of an arrow or
   function expression passed directly as a call argument, or the variable
   declared in the head of a for-in/for-of statement) is never reported; a
   parameter of a function declaration or of a function expression that is
   not a call argument is not exempt: its keep-alive read is reported like
   that of any owned binding. *)
C27_BorrowedNeverReported ==
  \A m \in seen \cap KeepAliveReads(Tree) :
    /\ BorrowedShape(Tree, BindingName(Tree, m)) => RefReportsOf(m) = {}
    /\ (OwnedParameter(Tree, BindingName(Tree, m)) /\ NonExempt(Tree, m)) =>
         /\ LaterRefs(Tree, m) = {} => UselessKeepAliveReported(m)
         /\ OnlyPropertyReadsLater(Tree, m) => NeedsReleaseReported(m)

C27_Witness ==
  \E m \in seen \cap KeepAliveReads(Tree) :
    /\ BorrowedShape(Tree, BindingName(Tree, m))
    /\ \E d \in DeclarationsOf(Tree, BindingName(Tree, m)) : Tree[d].slot = "params"
    /\ ~CapturedAcross(Tree, m, BindingName(Tree, m))
    /\ LaterRefs(Tree, m) = {}
    /\ RefReportsOf(m) = {}


(* C28: a keep-alive read preceded in source order by a consuming read of the
   binding (receiver of an invoked consuming method, or argument of a call)
   is never reported. *)
C28_ConsumedBeforeNeverReported ==
  \A m \in seen \cap KeepAliveReads(Tree) :
    (\E n \in EarlierRefs(Tree, m) :
       ConsumingRead(Tree, n) \/ (isRead(Tree, n) /\ IsDirectArgument(Tree, n)))
      => RefReportsOf(m) = {}

C28_Witness ==
  \E m \in seen \cap KeepAliveReads(Tree) :
    /\ NotBorrowedNorCaptured(Tree, m)
    /\ \E n \in EarlierRefs(Tree, m) :
         /\ ConsumingRead(Tree, n)
         /\ \E c \in 1..Len(Tree) :
              Tree[c].type = "CallExpression" /\ Inside(Tree, n, c) /\ Inside(Tree, m, c)
    /\ LaterRefs(Tree, m) = {}
    /\ RefReportsOf(m) = {}


LeakReportsOf(d) == {i \in 1..Len(leakReports) : leakReports[i].node = d}
TrackedDeclarators(T) ==
  {d \in 1..Len(T) :
     /\ T[d].type = "VariableDeclarator"
     /\ T[d + 1].type = "Identifier"
     /\ ProducerShape(T, ChildAt(T, d, "init"))}
UsesOf(T, d) == ReferencesTo(T, T[d + 1].name) \ {d + 1}

(* C29: a tracked binding whose references are all non-consuming property
   reads (or that has none) gets exactly one never-released violation; a
   binding with a consuming read gets none. *)
C29_NeverReleasedReportedOnce ==
  \A d \in seen \cap TrackedDeclarators(Tree) :
    /\ (\A n \in UsesOf(Tree, d) : NonConsumingAccess(Tree, n) /\ ~IsKeepAlive(Tree, n))
         => Cardinality(LeakReportsOf(d)) = 1
    /\ (\E n \in UsesOf(Tree, d) : ConsumingRead(Tree, n)) => LeakReportsOf(d) = {}

C29_Witness ==
  \E d \in seen \cap TrackedDeclarators(Tree) :
    \E o \in seen \cap TrackedDeclarators(Tree) :
      /\ UsesOf(Tree, d) # {}
      /\ \A n \in UsesOf(Tree, d) : NonConsumingAccess(Tree, n) /\ ~IsKeepAlive(Tree, n)
      /\ Cardinality(LeakReportsOf(d)) = 1
      /\ \E n \in UsesOf(Tree, o) : ConsumingRead(Tree, n)
      /\ LeakReportsOf(o) = {}
      /\ Len(leakReports) = 1

(* A read processed while a site is active and lying at or after the end of
   one of the site's tags: the terminating if, the conditional expression or
   the loop. *)
TriggersReset(k) ==
  /\ isRead(Tree, log[k].ref) /\ ~isWrite(Tree, log[k].ref)
  /\ log[k].before.consumedBy # NoSite
  /\ ResetApplies(Tree, log[k].before, log[k].ref)

(* A consuming read as the classifier tags it: the receiver of an invoked
   consuming method, or an argument pass whose call carries no borrow
   directive. *)
ClassifiedConsuming(T, lines, n) ==
  \/ InvokedConsumingMethod(T, n)
  \/ ArgumentPass(T, n) /\ ~BorrowLine(T, lines, n)

(* The tags of a state are those of its own site: each one encloses it. *)
TagsEnclose(T, st) ==
  \A tag \in {st.consumedInIf, st.consumedInConditional, st.consumedInLoop} :
    tag # 0 => Inside(T, st.consumedBy.identifier, tag)

(* C31: a read that triggers a dominance reset is not reported and leaves the
   pass in the state it would reach from no active consumer; when it is a
   consuming read outside any closure it is the new active site, with tags
   that enclose it, and the next read, none of the exceptions applying, is
   reported once blaming it. *)
C31_ResetThenReevaluated ==
  \A k \in 1..Len(log) :
    TriggersReset(k) =>
      /\ ReportsOf(log[k].ref) = {}
      /\ After(k) = AsIfNoConsumer(k)
      /\ (ClassifiedConsuming(Tree, prog.lines, log[k].ref) /\ ~CrossesClosure(Tree, log[k].ref)) =>
           /\ After(k).consumedBy.identifier = log[k].ref
           /\ TagsEnclose(Tree, After(k))
           /\ (k < Len(log) /\ PlainReadAfterConsume(k + 1)) =>
                ReportedOnceBlaming(log[k + 1].ref, log[k].ref)
      /\ ~ClassifiedConsuming(Tree, prog.lines, log[k].ref) => After(k) = Cleared

(* C31 case: a consuming method call after a loop whose body holds the active
   site became the new site, and the read after it was reported against it. *)
C31_Witness ==
  \E k \in 1..(Len(log) - 1) :
    /\ TriggersReset(k)
    /\ log[k].before.consumedInLoop # 0
    /\ log[k].ref >= log[k].before.consumedInLoop + Tree[log[k].before.consumedInLoop].size
    /\ InvokedConsumingMethod(Tree, log[k].ref)
    /\ After(k).consumedBy.identifier = log[k].ref
    /\ ReportedOnceBlaming(log[k + 1].ref, log[k].ref)
    /\ \A i \in ReportsOf(log[k + 1].ref) : reports[i].consumedLine = Tree[log[k].ref].line

(* A read in the branch opposite to the active site's that does not consume,
   or that lies in the right-hand side of an assignment back to the binding. *)
OneBranchConsumes(k) ==
  /\ isRead(Tree, log[k].ref) /\ ~isWrite(Tree, log[k].ref)
  /\ log[k].before.consumedBy # NoSite
  /\ OppositeBranches(Tree, log[k].ref, log[k].before.consumedBy.identifier)
  /\ ~ConsumingRead(Tree, log[k].ref) \/ InReassignRhs(Tree, log[k].ref, varName)

(* C32 as stated: a read in the opposite branch of the active site that is
   not a consuming site is not reported and clears the site and the tags, and
   the read that follows it is not reported either. *)
C32_OneBranchClears ==
  \A k \in 1..Len(log) :
    OneBranchConsumes(k) =>
      /\ ReportsOf(log[k].ref) = {}
      /\ After(k) = Cleared
      /\ (k < Len(log)) => ReportsOf(log[k + 1].ref) = {}

(* The site lies in a branch of the ternary n or in the right operand of the
   logical expression n, and the reference starts at or after the end of n. *)
PastConditionalAt(T, n, site, ref) ==
  /\ ref >= n + T[n].size
  /\ \/ /\ T[n].type = "ConditionalExpression"
        /\ \/ Inside(T, site, ChildAt(T, n, "consequent"))
           \/ Inside(T, site, ChildAt(T, n, "alternate"))
     \/ /\ T[n].type = "LogicalExpression"
        /\ T[n].name \in {"&&", "||", "??"}
        /\ Inside(T, site, ChildAt(T, n, "right"))

(* n is a ternary with a consuming read of the binding in each branch. *)
BothBranchesConsuming(T, n, name) ==
  /\ T[n].type = "ConditionalExpression"
  /\ \A b \in {ChildAt(T, n, "consequent"), ChildAt(T, n, "alternate")} :
       \E r \in 1..Len(T) : Inside(T, r, b) /\ T[r].name = name /\ ConsumingRead(T, r)

(* C33 as stated: every report whose reference lies after the end of a
   ternary branch or short-circuit right operand that holds the blamed site
   has, for that expression, a ternary both of whose branches consume; a
   both-consuming ternary nested in an outer branch or right operand does not
   make the read after the outer expression reported. *)
C33_PastConditionalNotBlamed ==
  \A i \in 1..Len(reports) : \A n \in 1..Len(Tree) :
    PastConditionalAt(Tree, n, reports[i].site, reports[i].node)
      => BothBranchesConsuming(Tree, n, varName)

(* The write references of the binding that precede node n in the source. *)
WritesBefore(T, n) ==
  {w \in 1..(n - 1) : w \in {refs[j] : j \in 1..Len(refs)} /\ T[w].rw \in {"w", "rw"}}

(* C34: the site blamed by a report is a read reference of the reported
   binding that precedes the offending reference in the source and follows
   every write reference that precedes the offending reference; the first
   reference after the declaration or after a write is never reported. *)
C34_SiteBetweenWriteAndUse ==
  /\ \A i \in 1..Len(reports) :
       LET site == reports[i].site
           use  == reports[i].node
       IN  /\ site \in {refs[j] : j \in 1..Len(refs)}
           /\ Tree[site].rw = "r"
           /\ Tree[site].name = reports[i].name
           /\ Tree[use].name = reports[i].name
           /\ ChildAt(Tree, node, "id") < site
           /\ site < use
           /\ \A w \in WritesBefore(Tree, use) : w < site
  /\ \A k \in 1..Len(log) :
       (k = 1 \/ isWrite(Tree, log[k - 1].ref)) => ReportsOf(log[k].ref) = {}

(* C34 case: in one loop body a read precedes the consuming site and is not
   reported, and a read after the site is reported against it. *)
C34_Witness ==
  \E n \in 1..Len(Tree) : \E a, b, c \in 1..Len(log) :
    /\ a < b /\ b < c
    /\ InLoopBody(Tree, log[a].ref, n)
    /\ InLoopBody(Tree, log[b].ref, n)
    /\ InLoopBody(Tree, log[c].ref, n)
    /\ isRead(Tree, log[a].ref) /\ ~isWrite(Tree, log[a].ref)
    /\ ReportsOf(log[a].ref) = {}
    /\ ReportedOnceBlaming(log[c].ref, log[b].ref)

(* The ternaries that hold s in a branch and the logical expressions that
   hold it in their right operand, with no function between them and s. *)
ConditionalsAround(T, s) ==
  {n \in 1..Len(T) :
     /\ \/ /\ T[n].type = "ConditionalExpression"
           /\ \/ Inside(T, s, ChildAt(T, n, "consequent"))
              \/ Inside(T, s, ChildAt(T, n, "alternate"))
        \/ /\ T[n].type = "LogicalExpression"
           /\ Inside(T, s, ChildAt(T, n, "right"))
     /\ ~ \E f \in (n + 1)..(s - 1) :
            /\ T[f].type \in {"ArrowFunctionExpression", "FunctionExpression",
                              "FunctionDeclaration"}
            /\ Inside(T, s, f)}

(* The innermost of them, or none. *)
NearestConditional(T, s) ==
  IF ConditionalsAround(T, s) = {} THEN 0
  ELSE CHOOSE n \in ConditionalsAround(T, s) : \A m \in ConditionalsAround(T, s) : m <= n

(* s lies in the test of a ternary or in the left operand of a logical
   expression. *)
InTestOrLeft(T, s) ==
  \E n \in 1..Len(T) :
    \/ T[n].type = "ConditionalExpression" /\ Inside(T, s, ChildAt(T, n, "test"))
    \/ T[n].type = "LogicalExpression" /\ Inside(T, s, ChildAt(T, n, "left"))

(* The k-th reference became the active site. *)
BecameSite(k) ==
  /\ ~isWrite(Tree, log[k].ref)
  /\ After(k).consumedBy # NoSite
  /\ After(k).consumedBy.identifier = log[k].ref

(* C35: the conditional tag of a new site is either null or the innermost
   ternary that holds the site in a branch, or logical expression that holds
   it in its right operand, inside the same function; for a site set with no
   consumer active it is exactly that.  A site in a ternary's test or a left
   operand, with no such expression around it, gets no tag, and the read
   after it is reported. *)
C35_ConditionalTagOnlyForBranches ==
  \A k \in 1..Len(log) :
    BecameSite(k) =>
      /\ After(k).consumedInConditional \in {0, NearestConditional(Tree, log[k].ref)}
      /\ NoActiveConsumer(k) =>
           After(k).consumedInConditional = NearestConditional(Tree, log[k].ref)
      /\ (InTestOrLeft(Tree, log[k].ref) /\ ConditionalsAround(Tree, log[k].ref) = {}) =>
           /\ After(k).consumedInConditional = 0
           /\ (k < Len(log) /\ PlainReadAfterConsume(k + 1)) =>
                ReportedOnceBlaming(log[k + 1].ref, log[k].ref)

(* C35 case: the site lies in the test of a ternary, it carries no
   conditional tag, and the read in the statement after the ternary has been
   reported against it. *)
C35_Witness ==
  \E k \in 1..(Len(log) - 1) : \E n \in 1..Len(Tree) :
    /\ BecameSite(k)
    /\ Tree[n].type = "ConditionalExpression"
    /\ Inside(Tree, log[k].ref, ChildAt(Tree, n, "test"))
    /\ After(k).consumedInConditional = 0
    /\ log[k + 1].ref >= n + Tree[n].size
    /\ ReportedOnceBlaming(log[k + 1].ref, log[k].ref)

(* Termination as the claim defines it, read off the parent links. *)
ChildrenIn(T, n) == {c \in (n + 1)..(n + T[n].size - 1) : c - T[c].up = n}

RECURSIVE EndsControl(_, _)
EndsControl(T, n) ==
  LET kids == ChildrenIn(T, n)
  IN  CASE T[n].type \in {"ReturnStatement", "ThrowStatement", "BreakStatement",
                          "ContinueStatement"} -> TRUE
        [] T[n].type = "BlockStatement" ->
             kids # {} /\ EndsControl(T, CHOOSE c \in kids : \A d \in kids : d <= c)
        [] T[n].type = "IfStatement" ->
             /\ \E a \in kids : T[a].slot = "alternate"
             /\ \A b \in kids : T[b].slot \in {"consequent", "alternate"} => EndsControl(T, b)
        [] OTHER -> FALSE

(* The if statements with a terminating branch that holds s, no function
   lying between the if and s. *)
TerminatingIfsAround(T, s) ==
  {n \in 1..Len(T) :
     /\ T[n].type = "IfStatement"
     /\ \E b \in ChildrenIn(T, n) :
          /\ T[b].slot \in {"consequent", "alternate"}
          /\ Inside(T, s, b)
          /\ EndsControl(T, b)
     /\ ~ \E f \in (n + 1)..(s - 1) :
            /\ T[f].type \in {"ArrowFunctionExpression", "FunctionExpression",
                              "FunctionDeclaration"}
            /\ Inside(T, s, f)}

InnermostTerminatingIf(T, s) ==
  IF TerminatingIfsAround(T, s) = {} THEN 0
  ELSE CHOOSE n \in TerminatingIfsAround(T, s) : \A m \in TerminatingIfsAround(T, s) : m <= n

(* C36: every statement of the file is judged terminating exactly when it is
   a return/throw/break/continue, a non-empty block whose last statement
   terminates, or an if with an alternate whose two branches terminate; and
   the terminating-if tag of every new site is the innermost if statement,
   inside the same function, whose branch holding the site terminates. *)
C36_TerminatingIfTag ==
  /\ \A n \in 1..Len(Tree) : blockTerminates(Tree, n) <=> EndsControl(Tree, n)
  /\ \A k \in 1..Len(log) :
       BecameSite(k) => After(k).consumedInIf = InnermostTerminatingIf(Tree, log[k].ref)

(* C36 case: the branch that holds the site ends with an if/else both of
   whose branches terminate, the if statement is the site's tag and the read
   after it is not reported. *)
C36_Witness ==
  \E k \in 1..(Len(log) - 1) : \E b \in 1..Len(Tree) :
    /\ BecameSite(k)
    /\ After(k).consumedInIf # 0
    /\ b \in ChildrenIn(Tree, After(k).consumedInIf)
    /\ Inside(Tree, log[k].ref, b)
    /\ Tree[b].type = "BlockStatement"
    /\ Tree[CHOOSE c \in ChildrenIn(Tree, b) : \A d \in ChildrenIn(Tree, b) : d <= c].type
         = "IfStatement"
    /\ log[k + 1].ref >= After(k).consumedInIf + Tree[After(k).consumedInIf].size
    /\ reports = <<>>
    /\ pc = "done"

(* The file's lines with every comment taken out. *)
WithoutComments == [l \in 1..Len(prog.lines) |-> <<"code">>]

(* What the k-th iteration does on the file without its comments. *)
IgnoringDirective(k) ==
  ProcessRef(Tree, WithoutComments, variable, varName, log[k].before, log[k].ref)

(* C37: a consuming method call processed with no active consumer, outside
   any closure and any assignment back to the binding, becomes the active
   site whatever the lines of the file carry; and every reference other than
   an argument whose call starts on a directive line or on the line below one
   is processed exactly as in the file without comments. *)
C37_DirectiveOnlyForArguments ==
  \A k \in 1..Len(log) :
    /\ (/\ InvokedConsumingMethod(Tree, log[k].ref)
        /\ NoActiveConsumer(k)
        /\ ~CrossesClosure(Tree, log[k].ref)
        /\ ~InReassignRhs(Tree, log[k].ref, varName)) =>
         /\ After(k).consumedBy.identifier = log[k].ref
         /\ After(k).consumedBy.kind = "method"
    /\ ~(ArgumentPass(Tree, log[k].ref) /\ BorrowLine(Tree, prog.lines, log[k].ref)) =>
         /\ After(k) = IgnoringDirective(k).st
         /\ ReportsOf(log[k].ref) # {} <=> IgnoringDirective(k).report # NoReport
         /\ \A i \in ReportsOf(log[k].ref) : reports[i] = IgnoringDirective(k).report

(* C37 case: x.add(1) on a line that carries the directive became the active
   site and the read on the next line, the line below the directive, was
   reported against it. *)
C37_Witness ==
  \E k \in 1..(Len(log) - 1) :
    /\ InvokedConsumingMethod(Tree, log[k].ref)
    /\ DirectiveOn(prog.lines[Tree[log[k].ref].line])
    /\ After(k).consumedBy.identifier = log[k].ref
    /\ Tree[log[k + 1].ref].line = Tree[log[k].ref].line + 1
    /\ ReportedOnceBlaming(log[k + 1].ref, log[k].ref)

(* C38: a keep-alive read that a function boundary separates from the
   declaration of its binding is never reported, whatever references of the
   binding precede or follow it. *)
C38_ClosureCaptureNeverReported ==
  \A m \in seen \cap KeepAliveReads(Tree) :
    CapturedAcross(Tree, m, BindingName(Tree, m)) => RefReportsOf(m) = {}

(* C38 case: every marker of the file has been visited; one sits in a closure
   over a binding declared outside it, no read of the binding precedes it and
   no reference follows it, so that outside a closure it would be reported;
   nothing is reported for it. *)
C38_Witness ==
  /\ seen = RefMembers(Tree)
  /\ \E m \in seen \cap KeepAliveReads(Tree) :
       /\ CapturedAcross(Tree, m, BindingName(Tree, m))
       /\ ~BorrowedShape(Tree, BindingName(Tree, m))
       /\ DeclarationsOf(Tree, BindingName(Tree, m)) # {}
       /\ \A n \in EarlierRefs(Tree, m) : ~isRead(Tree, n)
       /\ LaterRefs(Tree, m) = {}
       /\ RefReportsOf(m) = {}

(* The property name read or invoked on the reference n, "" when n is not the
   object of a non-computed member access. *)
AccessedName(T, n) ==
  IF /\ parentOf(T, n) # 0
     /\ T[parentOf(T, n)].type = "MemberExpression"
     /\ T[n].slot = "object"
     /\ T[parentOf(T, n)].name # "computed"
  THEN T[ChildAt(T, parentOf(T, n), "property")].name
  ELSE ""
ReferencesIn(T) == {n \in 1..Len(T) : T[n].type = "Identifier" /\ T[n].rw # ""}
ClassifiedConsumingByCode(T, n) ==
  isConsumingReference(T, n) \/ getConsumingSite(T, n) # NoSite

(* C39: the three name tables are pairwise disjoint and none of the consuming
   tables holds `ref`; no reference of any file is classified consuming (by
   isConsumingReference or getConsumingSite) and non-consuming (by
   isNonConsumingReference) at once; a reference on which `ref` is read or
   invoked is not classified consuming; and no reference that
   isNonConsumingReference accepts ever becomes the active consuming site. *)
C39_NameTablesConsistent ==
  /\ ARRAY_RETURNING_METHODS \cap CONSUMING_TERMINAL_METHODS = {}
  /\ ARRAY_RETURNING_METHODS \cap NON_CONSUMING_PROPS = {}
  /\ CONSUMING_TERMINAL_METHODS \cap NON_CONSUMING_PROPS = {}
  /\ NON_CONSUMING_PROPS = EXTRACTED_GETTERS \cup {"toString", "blockUntilReady"}
  /\ "ref" \notin ARRAY_RETURNING_METHODS \cup CONSUMING_TERMINAL_METHODS
  /\ \A n \in ReferencesIn(Tree) :
       /\ ~(isNonConsumingReference(Tree, n) /\ ClassifiedConsumingByCode(Tree, n))
       /\ AccessedName(Tree, n) = "ref" => ~ClassifiedConsumingByCode(Tree, n)
  /\ \A k \in 1..Len(log) :
       BecameSite(k) => ~isNonConsumingReference(Tree, log[k].ref)

(* C39 case: `x.toString()` or `x.blockUntilReady()`, a method call by shape
   on a name of the non-consuming table, has been processed with no consumer
   active: it is classified non-consuming and not consuming, no site is set,
   and the read of x in the next statement is not reported. *)
C39_Witness ==
  \E k \in 1..(Len(log) - 1) :
    LET n == log[k].ref
    IN  /\ AccessedName(Tree, n) \in NON_CONSUMING_METHODS
        /\ TypeOf(Tree, parentOf(Tree, parentOf(Tree, n))) = "CallExpression"
        /\ Tree[parentOf(Tree, n)].slot = "callee"
        /\ isNonConsumingReference(Tree, n)
        /\ ~ClassifiedConsumingByCode(Tree, n)
        /\ log[k].before.consumedBy = NoSite
        /\ After(k).consumedBy = NoSite
        /\ ReportsOf(log[k + 1].ref) = {}

====
